---- MODULE Spec2Model ----
(***************************************************************************)
(* A model of pyact/actor.py: actors are greenlets with a mailbox, run by  *)
(* one cooperative hub.  Exactly one greenlet runs at a time (cur); an     *)
(* actor gives up control only where the code suspends: in receive (on     *)
(* _wevent.wait), in Address.wait (on the exit event), in sleep, in kill   *)
(* (the killer is rescheduled through the hub) and at the end of run.      *)
(* Behaviours are arbitrary user code: every operation of the API is an    *)
(* action a running actor may take, with its inputs drawn from small sets. *)
(***************************************************************************)
EXTENDS Integers, Sequences, FiniteSets, TLC

\* ------------------------------------------------------------------ bounds
\* actor objects there can be
MaxActors == 3
\* casts behaviours make
MaxCasts == 2
\* operations of behaviours in the lifecycle specification (Spec)
MaxOps == 4
\* operations of behaviours in the call specification (SpecCall)
MaxCallOps == 6
\* calls made
MaxCalls == 2
\* actors of the mailbox specifications (SpecMail, FairSpecWake)
MailActors == 2
\* operations of behaviours in the mailbox specifications
MaxMailOps == 3
\* casts made and operations of behaviours in the specification of mailbox
\* order (SpecOrder)
MaxOrderCasts == 4
MaxOrderOps == 6
\* operations of behaviours in the specification of receives under a Timeout
MaxLeakOps == 4
\* operations of behaviours in the specification of responses
MaxRespondOps == 5
\* operations of behaviours in the specification of names
MaxRenameOps == 5
\* operations in a run of wait_all (the spawn_links and receives of the
\* Gather, the sleeps of the behaviours)
MaxGatherOps == 7
\* operations of behaviours in the specification of killing
MaxKillOps == 4
\* operations of behaviours in the specification of the Address operations
MaxAddrOps == 4
\* operations of behaviours in the specification of calls without reply
MaxTimeoutOps == 4
\* operations (calls, casts, turns of the Server's loop) in a run of the
\* Server system
MaxServerOps == 5

Actors == 1..MaxActors
Hub == 0

\* str(uuid.uuid1()) of Actor.__init__: one fresh string per actor object.
UuidSeq == <<"u1", "u2", "u3", "u4", "u5", "u6">>
Uuid(a) == UuidSeq[a]
\* names a behaviour may pass to rename
UserNames == {"n1"}
Names == {Uuid(a) : a \in Actors} \cup UserNames
\* str(uuid.uuid1()) of Address.call: one fresh string per call.
CallIdSeq == <<"r1", "r2", "r3", "r4", "r5">>

\* ------------------------------------------------------------ JSON values
\* A message is a mapping from keys to terminals; a terminal is one of:
None == [t |-> "null"]
Num(n) == [t |-> "int", n |-> n]
Str(s) == [t |-> "str", s |-> s]
\* an Address object (in memory): it refers to the actor object
Addr(a) == [t |-> "address", a |-> a]
\* Address.to_json: {'_pyact_address': actor_id} (on the wire)
AddrJson(id) == [t |-> "_pyact_address", id |-> id]
\* exc.format_exc(): the formatted exception, a JSON tree naming the error
Tree(e) == [t |-> "tree", e |-> e]
\* a type object used as a terminal of a pattern (str, int, object, Address)
Class(c) == [t |-> "class", c |-> c]
\* the empty tuple (): what a greenlet suspended in switch() is handed when it
\* is resumed by a switch() without arguments
EmptyTuple == [t |-> "tuple", l |-> <<>>]

\* ---------------------------------------------------------- shape matcher
\* shape.is_shaped on a terminal: a type object matches by conformance, any
\* other terminal by equality.
Conforms(v, c) ==
    CASE c = "object" -> TRUE
      [] c = "str" -> v.t = "str"
      [] c = "int" -> v.t = "int"
      [] c = "Address" -> v.t = "address"
      [] c = "dict" -> v.t = "tree"
      [] OTHER -> FALSE

is_shaped_terminal(v, p) ==
    IF p.t = "class" THEN Conforms(v, p.c) ELSE v = p

\* shape.is_shaped on two mappings: every key of the pattern is a key of the
\* value and the values match pointwise; other keys of the value are ignored.
is_shaped(value, pattern) ==
    \A k \in DOMAIN pattern :
        /\ k \in DOMAIN value
        /\ is_shaped_terminal(value[k], pattern[k])

\* ------------------------------------------------------------------ state
VARIABLES
    cur,              \* the running greenlet: an actor, or Hub
    state,            \* greenlet state of each actor object: unused/new/active/dead
    pos,              \* where a suspended actor waits: "-", receive, wait, sleep, kill
    actor_id,         \* Actor._actor_id
    all_actors,       \* Actor.all_actors: name -> actor (0: no entry)
    mailbox,          \* Actor._mailbox
    links,            \* Actor._links
    exit_links,       \* Actor._exit_links
    exit_event,       \* Actor._exit_event: unset, or the value / exception sent
    wevent,           \* Actor._wevent is not None
    already_notified, \* Actor._already_notified
    wake,             \* hub: _do_send of the actor's _wevent is scheduled
    waiting_on,       \* the actor whose exit event this actor waits on (0: none)
    exitwake,         \* hub: _do_send of that exit event to this waiter is scheduled
    rtimer,           \* armed eventlet.Timeout(t, ReceiveTimeout) timers of the actor
    ctimer,           \* armed eventlet.Timeout(t, TimeoutError) timers of the actor
    resume,           \* hub: how many plain switches back to the actor are scheduled
    rcv,              \* the receive in progress (or the last one): its patterns and
                      \* its timeout (none, zero, timed)
    incall,           \* the call in progress: its message id, method, timer (id "": none)
    exc,              \* the exception propagating in the actor's behaviour ("": none)
    ret,              \* what the actor's last operation returned (n: a mark that alternates)
    ended,            \* how the actor's behaviour ended: unset, a value, an exception
    got,              \* every message the actor's receive calls returned, in order
    sent,             \* every message appended to the actor's mailbox, in order
    nuid,             \* messages appended so far (each gets the next number)
    ncall,            \* calls made so far
    ncast,            \* casts made by behaviours so far
    ops               \* operations performed by behaviours so far

vars == <<cur, state, pos, actor_id, all_actors, mailbox, links, exit_links,
          exit_event, wevent, already_notified, wake, waiting_on, exitwake,
          rtimer, ctimer, resume, rcv, incall, exc, ret, ended, got, sent,
          nuid, ncall, ncast, ops>>

Unset == [kind |-> "unset"]
NoRet == [op |-> "none"]
NoCall == [id |-> "", method |-> "", timed |-> FALSE]
NoRcv == [pats |-> <<>>, timeout |-> "none"]
NoMsg == [uid |-> 0]

\* A faulty _actor, which would take an actor for finished when the registry
\* has no entry for its id.
IsDeadUnlisted(a) == all_actors[actor_id[a]] = 0

\* Address._actor: the Address is usable unless its actor has finished.
IsDead(a) == state[a] = "dead"

\* ------------------------------------------------------------------ codec
\* json.dumps(message, default=handle_custom): an Address in the message is
\* written as its actor_id, which needs the actor alive (Address.actor_id).
EncodeOk(body) ==
    \A k \in DOMAIN body : body[k].t = "address" => ~IsDead(body[k].a)

Encode(ids, body) ==
    [k \in DOMAIN body |->
        IF body[k].t = "address" THEN AddrJson(ids[body[k].a]) ELSE body[k]]

\* json.loads(message, object_hook=generate_custom): a {'_pyact_address': id}
\* object becomes Actor.all_actors[id].address (KeyError without an entry).
DecodeOk(reg, wire) ==
    \A k \in DOMAIN wire : wire[k].t = "_pyact_address" => reg[wire[k].id] # 0

Decode(reg, wire) ==
    [k \in DOMAIN wire |->
        IF wire[k].t = "_pyact_address" THEN Addr(reg[wire[k].id]) ELSE wire[k]]

\* ------------------------------------------------------------------- cast
\* What a cast changes, kept together so that run can make several in a row.
Boxes == [mb |-> mailbox, an |-> already_notified, wk |-> wake, st |-> sent,
          nu |-> nuid]

\* A faulty _cast, which would not append when the owner has been notified.
_castUnlessNotified(B, sender, b, wire) ==
    LET msg == [uid |-> B.nu + 1, from |-> sender,
                body |-> Decode(all_actors, wire)]
        notify == wevent[b] /\ ~B.an[b]
    IN [mb |-> [B.mb EXCEPT ![b] = IF B.an[b] THEN @ ELSE Append(@, msg)],
        an |-> [B.an EXCEPT ![b] = @ \/ notify],
        wk |-> [B.wk EXCEPT ![b] = @ \/ notify],
        st |-> [B.st EXCEPT ![b] = Append(@, msg)],
        nu |-> B.nu + 1]

\* A faulty _cast, which would insert the message at the head of the mailbox.
_castAtHead(B, sender, b, wire) ==
    LET msg == [uid |-> B.nu + 1, from |-> sender,
                body |-> Decode(all_actors, wire)]
        notify == wevent[b] /\ ~B.an[b]
    IN [mb |-> [B.mb EXCEPT ![b] = <<msg>> \o @],
        an |-> [B.an EXCEPT ![b] = @ \/ notify],
        wk |-> [B.wk EXCEPT ![b] = @ \/ notify],
        st |-> [B.st EXCEPT ![b] = Append(@, msg)],
        nu |-> B.nu + 1]

\* A faulty _cast, which would send _wevent only when the mailbox was empty.
_castSendIfEmpty(B, sender, b, wire) ==
    LET msg == [uid |-> B.nu + 1, from |-> sender,
                body |-> Decode(all_actors, wire)]
        notify == wevent[b] /\ ~B.an[b] /\ B.mb[b] = <<>>
    IN [mb |-> [B.mb EXCEPT ![b] = Append(@, msg)],
        an |-> [B.an EXCEPT ![b] = @ \/ notify],
        wk |-> [B.wk EXCEPT ![b] = @ \/ notify],
        st |-> [B.st EXCEPT ![b] = Append(@, msg)],
        nu |-> B.nu + 1]

\* Actor._cast: append the decoded message; wake the owner if it is suspended
\* on _wevent and has not been notified yet.
_cast(B, sender, b, wire) ==
    LET msg == [uid |-> B.nu + 1, from |-> sender,
                body |-> Decode(all_actors, wire)]
        notify == wevent[b] /\ ~B.an[b]
    IN [mb |-> [B.mb EXCEPT ![b] = Append(@, msg)],
        an |-> [B.an EXCEPT ![b] = @ \/ notify],
        wk |-> [B.wk EXCEPT ![b] = @ \/ notify],
        st |-> [B.st EXCEPT ![b] = Append(@, msg)],
        nu |-> B.nu + 1]

\* Address.cast: DeadActor when the target has finished (self._actor) or the
\* message holds the Address of a finished actor (to_json), KeyError when an
\* Address in the message names no entry of the registry (from_json).
CastError(b, body) ==
    IF IsDead(b) THEN "DeadActor"
    ELSE IF ~EncodeOk(body) THEN "DeadActor"
    ELSE IF ~DecodeOk(all_actors, Encode(actor_id, body)) THEN "KeyError"
    ELSE ""

AddressCast(B, sender, b, body) ==
    IF CastError(b, body) # ""
    THEN [err |-> CastError(b, body), B |-> B]
    ELSE [err |-> "", B |-> _cast(B, sender, b, Encode(actor_id, body))]

\* for link in <list>: link.cast(body), which stops at the first cast that raises
RECURSIVE CastAll(_, _, _, _)
CastAll(B, sender, targets, body) ==
    IF targets = <<>> THEN [err |-> "", B |-> B]
    ELSE LET r == AddressCast(B, sender, Head(targets), body)
         IN IF r.err # "" THEN r
            ELSE CastAll(r.B, sender, Tail(targets), body)

SetBoxes(B) ==
    /\ mailbox' = B.mb
    /\ already_notified' = B.an
    /\ wake' = B.wk
    /\ sent' = B.st
    /\ nuid' = B.nu

ExitMessage(a, v) == ("address" :> Addr(a)) @@ ("exit" :> v)
ExceptionMessage(a, e) == ("address" :> Addr(a)) @@ ("exception" :> Tree(e))

\* ------------------------------------------------------------------- init
\* The main greenlet has spawned the actors of `spawned`, which await their
\* first switch; the main greenlet does nothing else.
InitWith(spawned) ==
    /\ cur = Hub
    /\ state = [a \in Actors |-> IF a \in spawned THEN "new" ELSE "unused"]
    /\ pos = [a \in Actors |-> "-"]
    /\ actor_id = [a \in Actors |-> Uuid(a)]
    /\ all_actors = [n \in Names |->
                       IF \E a \in spawned : n = Uuid(a)
                       THEN CHOOSE a \in spawned : n = Uuid(a) ELSE 0]
    /\ mailbox = [a \in Actors |-> <<>>]
    /\ links = [a \in Actors |-> <<>>]
    /\ exit_links = [a \in Actors |-> <<>>]
    /\ exit_event = [a \in Actors |-> Unset]
    /\ wevent = [a \in Actors |-> FALSE]
    /\ already_notified = [a \in Actors |-> FALSE]
    /\ wake = [a \in Actors |-> FALSE]
    /\ waiting_on = [a \in Actors |-> 0]
    /\ exitwake = [a \in Actors |-> FALSE]
    /\ rtimer = [a \in Actors |-> 0]
    /\ ctimer = [a \in Actors |-> 0]
    /\ resume = [a \in Actors |-> 0]
    /\ rcv = [a \in Actors |-> NoRcv]
    /\ incall = [a \in Actors |-> NoCall]
    /\ exc = [a \in Actors |-> ""]
    /\ ret = [a \in Actors |-> NoRet]
    /\ ended = [a \in Actors |-> Unset]
    /\ got = [a \in Actors |-> <<>>]
    /\ sent = [a \in Actors |-> <<>>]
    /\ nuid = 0
    /\ ncall = 0
    /\ ncast = 0
    /\ ops = 0

\* The actor runs user code: it is the current greenlet and no exception is
\* propagating in it.
Running(a) == cur = a /\ state[a] = "active" /\ exc[a] = ""

Init == InitWith({1})

\* ------------------------------------------------------------ spawn, start
\* Actor.__init__ and spawn: a new actor object, registered under a fresh
\* uuid, scheduled with spawn_after(0, switch).
NewActor(b) ==
    /\ state[b] = "unused"
    /\ \A c \in Actors : c < b => state[c] # "unused"

Spawn(a) ==
    /\ Running(a)
    /\ \E b \in Actors :
        /\ NewActor(b)
        /\ state' = [state EXCEPT ![b] = "new"]
        /\ all_actors' = [all_actors EXCEPT ![Uuid(b)] = b]
        /\ ret' = [ret EXCEPT ![a] = [op |-> "spawn", addr |-> b]]
    /\ ops' = ops + 1
    /\ UNCHANGED <<cur, pos, actor_id, mailbox, links, exit_links, exit_event,
                   wevent, already_notified, wake, waiting_on, exitwake, rtimer,
                   ctimer, resume, rcv, incall, exc, ended, got, sent, nuid,
                   ncall, ncast>>

\* A faulty add_link, which would add the address to _links alone.
add_linkNoExit(L, b, address, trap_exit) ==
    [lk |-> [L.lk EXCEPT ![b] = Append(@, address)], xl |-> L.xl]

\* Actor.add_link
add_link(L, b, address, trap_exit) ==
    [lk |-> [L.lk EXCEPT ![b] = Append(@, address)],
     xl |-> IF trap_exit THEN [L.xl EXCEPT ![b] = Append(@, address)] ELSE L.xl]

\* spawn_link: spawn, with add_link(current.address) before the actor is scheduled
SpawnLink(a) ==
    /\ Running(a)
    /\ \E b \in Actors :
        /\ NewActor(b)
        /\ state' = [state EXCEPT ![b] = "new"]
        /\ all_actors' = [all_actors EXCEPT ![Uuid(b)] = b]
        /\ ret' = [ret EXCEPT ![a] = [op |-> "spawn", addr |-> b]]
        /\ LET L == add_link([lk |-> links, xl |-> exit_links], b, a, TRUE)
           IN links' = L.lk /\ exit_links' = L.xl
    /\ ops' = ops + 1
    /\ UNCHANGED <<cur, pos, actor_id, mailbox, exit_event,
                   wevent, already_notified, wake, waiting_on, exitwake, rtimer,
                   ctimer, resume, rcv, incall, exc, ended, got, sent, nuid,
                   ncall, ncast>>

\* The hub fires the spawn_after timer: the actor's greenlet starts run().
Start(b) ==
    /\ cur = Hub
    /\ state[b] = "new"
    /\ state' = [state EXCEPT ![b] = "active"]
    /\ cur' = b
    /\ UNCHANGED <<pos, actor_id, all_actors, mailbox, links, exit_links,
                   exit_event, wevent, already_notified, wake, waiting_on,
                   exitwake, rtimer, ctimer, resume, rcv, incall, exc, ret,
                   ended, got, sent, nuid, ncall, ncast, ops>>

\* -------------------------------------------------------------------- run
\* Event.send: every greenlet waiting on the event gets a _do_send scheduled.
SendExit(a) ==
    [w \in Actors |-> exitwake[w] \/ (waiting_on[w] = a /\ pos[w] = "wait")]

\* A faulty run, which would send the result (None after an exception) on the
\* exit event whatever the way the behaviour ended.
ExitOutcomeResultOnly(out) ==
    IF out.kind = "exc" THEN [kind |-> "value", val |-> None] ELSE out

\* What run sends on the exit event: send(result) after a return,
\* send_exception(*sys.exc_info()) after an exception.
ExitOutcome(out) == out

\* all_actors.pop(actor_id)
Pop(reg, id) == [reg EXCEPT ![id] = 0]

\* The end of Actor.run once the behaviour has returned or raised: `out` is
\* how it ended.  A cast that raises leaves run at once: what follows it (the
\* exit event after the exception casts, the other links, the pop) is skipped.
Finish(a, out) ==
    LET excCasts == IF out.kind = "exc"
                    THEN CastAll(Boxes, a, links[a], ExceptionMessage(a, out.val))
                    ELSE [err |-> "", B |-> Boxes]
        result == IF out.kind = "exc" THEN None ELSE out.val
        exitCasts == CastAll(excCasts.B, a, exit_links[a], ExitMessage(a, result))
    IN /\ ended' = [ended EXCEPT ![a] = out]
       /\ state' = [state EXCEPT ![a] = "dead"]
       /\ cur' = Hub
       /\ exc' = [exc EXCEPT ![a] = ""]
       /\ rtimer' = [rtimer EXCEPT ![a] = 0]
       /\ ctimer' = [ctimer EXCEPT ![a] = 0]
       /\ resume' = [resume EXCEPT ![a] = 0]
       /\ IF excCasts.err # ""
          THEN /\ SetBoxes(excCasts.B)
               /\ UNCHANGED <<exit_event, exitwake, all_actors>>
          ELSE /\ exit_event' = [exit_event EXCEPT ![a] = ExitOutcome(out)]
               /\ exitwake' = SendExit(a)
               /\ SetBoxes(exitCasts.B)
               /\ all_actors' = IF exitCasts.err # "" THEN all_actors
                                ELSE Pop(all_actors, actor_id[a])
       /\ UNCHANGED <<pos, actor_id, links, exit_links, wevent, waiting_on,
                      rcv, incall, ret, got, ncall, ncast, ops>>

RetVals == {Num(4)}
RaiseKinds == {"RuntimeError"}

\* the behaviour returns a value
Return(a) ==
    /\ Running(a)
    /\ \E v \in RetVals : Finish(a, [kind |-> "value", val |-> v])

\* the behaviour raises an exception of its own
Raise(a) ==
    /\ Running(a)
    /\ \E e \in RaiseKinds : Finish(a, [kind |-> "exc", val |-> e])

\* an exception raised by an operation leaves the behaviour uncaught
Die(a) ==
    /\ cur = a /\ state[a] = "active" /\ exc[a] # ""
    /\ Finish(a, [kind |-> "exc", val |-> exc[a]])

\* the behaviour catches the exception an operation raised, and goes on
Catch(a) ==
    /\ cur = a /\ state[a] = "active"
    /\ exc[a] \in {"DeadActor", "KeyError", "TimeoutError", "RemoteException",
                   "RemoteAttributeError"}
    /\ exc' = [exc EXCEPT ![a] = ""]
    /\ UNCHANGED <<cur, state, pos, actor_id, all_actors, mailbox, links,
                   exit_links, exit_event, wevent, already_notified, wake,
                   waiting_on, exitwake, rtimer, ctimer, resume, rcv, incall,
                   ret, ended, got, sent, nuid, ncall, ncast, ops>>

\* ----------------------------------------------------- link, cast, rename
\* Address.link: the current actor's address is added to the target's links.
LinkTo(a, b, trap_exit) ==
    /\ Running(a)
    /\ state[b] # "unused"
    /\ b # a
    /\ IF IsDead(b)
       THEN /\ exc' = [exc EXCEPT ![a] = "DeadActor"]
            /\ UNCHANGED <<links, exit_links>>
       ELSE /\ LET L == add_link([lk |-> links, xl |-> exit_links], b, a,
                                 trap_exit)
               IN links' = L.lk /\ exit_links' = L.xl
            /\ UNCHANGED exc
    /\ ops' = ops + 1
    /\ UNCHANGED <<cur, state, pos, actor_id, all_actors, mailbox, exit_event,
                   wevent, already_notified, wake, waiting_on, exitwake, rtimer,
                   ctimer, resume, rcv, incall, ret, ended, got, sent, nuid,
                   ncall, ncast>>

Link(a) == \E b \in Actors, trap_exit \in BOOLEAN : LinkTo(a, b, trap_exit)

\* self.add_link(address): the actor adds an Address it holds to its own links.
AddLink(a) ==
    /\ Running(a)
    /\ \E c \in Actors, trap_exit \in BOOLEAN :
        /\ state[c] # "unused"
        /\ c # a
        /\ LET L == add_link([lk |-> links, xl |-> exit_links], a, c, trap_exit)
           IN links' = L.lk /\ exit_links' = L.xl
    /\ ops' = ops + 1
    /\ UNCHANGED <<cur, state, pos, actor_id, all_actors, mailbox, exit_event,
                   wevent, already_notified, wake, waiting_on, exitwake, rtimer,
                   ctimer, resume, rcv, incall, exc, ret, ended, got, sent,
                   nuid, ncall, ncast>>

\* the messages behaviours cast
Tagged(s) == "tag" :> Str(s)
WithAddress(c) == Tagged("C") @@ ("address" :> Addr(c))

\* Address.cast by a behaviour
CastMessage(a, b, body) ==
    /\ Running(a)
    /\ state[b] # "unused"
    /\ LET r == AddressCast(Boxes, a, b, body)
       IN /\ SetBoxes(r.B)
          /\ exc' = [exc EXCEPT ![a] = r.err]
    /\ ncast' = ncast + 1
    /\ ops' = ops + 1
    /\ UNCHANGED <<cur, state, pos, actor_id, all_actors, links, exit_links,
                   exit_event, wevent, waiting_on, exitwake, rtimer, ctimer,
                   resume, rcv, incall, ret, ended, got, ncall>>

\* Address.cast by a behaviour, while the run has casts left
Cast(a, b, body) == ncast < MaxCasts /\ CastMessage(a, b, body)

\* Actor.rename
RenameTo(a, name) ==
    /\ Running(a)
    /\ IF all_actors[actor_id[a]] = 0
       THEN \* del self.all_actors[self.actor_id] raises KeyError
            /\ exc' = [exc EXCEPT ![a] = "KeyError"]
            /\ UNCHANGED <<actor_id, all_actors>>
       ELSE /\ actor_id' = [actor_id EXCEPT ![a] = name]
            /\ all_actors' = [Pop(all_actors, actor_id[a]) EXCEPT ![name] = a]
            /\ UNCHANGED exc
    /\ ops' = ops + 1
    /\ UNCHANGED <<cur, state, pos, mailbox, links, exit_links, exit_event,
                   wevent, already_notified, wake, waiting_on, exitwake, rtimer,
                   ctimer, resume, rcv, incall, ret, ended, got, sent, nuid,
                   ncall, ncast>>

Rename(a) == \E name \in UserNames : RenameTo(a, name)

\* ---------------------------------------------------------------- receive
Min(S) == CHOOSE x \in S : \A y \in S : x <= y

\* A faulty removal, which would fill the place of the message returned with
\* the last message of the mailbox instead of closing the gap.
RemoveSwapLast(s, i) ==
    [k \in 1..(Len(s) - 1) |-> IF k = i THEN s[Len(s)] ELSE s[k]]

\* del self._mailbox[i]
RemoveAt(s, i) == SubSeq(s, 1, i - 1) \o SubSeq(s, i + 1, Len(s))

\* A faulty _match_patterns with the loops exchanged: the patterns in argument
\* order, for each the messages in mailbox order.
_match_patterns_byPattern(mb, patterns) ==
    LET used == {j \in 1..Len(patterns) :
                    \E i \in 1..Len(mb) : is_shaped(mb[i].body, patterns[j])}
    IN IF used = {} THEN [i |-> 0, j |-> 0]
       ELSE LET j == Min(used)
            IN [i |-> Min({i \in 1..Len(mb) :
                             is_shaped(mb[i].body, patterns[j])}),
                j |-> j]

\* A faulty _match_patterns that gives up after the first message of the mailbox.
_match_patterns_firstOnly(mb, patterns) ==
    LET used == {j \in 1..Len(patterns) :
                    mb # <<>> /\ is_shaped(mb[1].body, patterns[j])}
    IN IF used = {} THEN [i |-> 0, j |-> 0]
       ELSE [i |-> 1, j |-> Min(used)]

\* Actor._match_patterns: the messages in mailbox order, for each the patterns
\* in argument order; i is the message's place (0: no match), j the pattern's.
_match_patterns(mb, patterns) ==
    LET hits == {i \in 1..Len(mb) :
                    \E j \in 1..Len(patterns) : is_shaped(mb[i].body, patterns[j])}
    IN IF hits = {} THEN [i |-> 0, j |-> 0]
       ELSE LET i == Min(hits)
            IN [i |-> i,
                j |-> Min({j \in 1..Len(patterns) :
                             is_shaped(mb[i].body, patterns[j])})]

\* the pattern {object: object} that receive returns when it was given none
AnyPattern == -1

\* One look at the mailbox in receive: with patterns _match_patterns, without
\* any the first message.
Select(mb, patterns) ==
    IF patterns # <<>> THEN _match_patterns(mb, patterns)
    ELSE IF mb # <<>> THEN [i |-> 1, j |-> AnyPattern]
    ELSE [i |-> 0, j |-> 0]

\* A faulty call, which would take the EXC pattern for INV and INV for EXC.
CallOutcomeSwapped(j) ==
    CASE j = 1 -> "return"
      [] j = 2 -> "RemoteAttributeError"
      [] j = 3 -> "RemoteException"
      [] OTHER -> "TypeError"

\* Address.call after its receive returned (pattern j, response): cancel the
\* timer, then raise or return by the pattern that matched.
CallOutcome(j) ==
    CASE j = 1 -> "return"
      [] j = 2 -> "RemoteException"
      [] j = 3 -> "RemoteAttributeError"
      [] OTHER -> "TypeError"

CallExc(j) == IF j = 1 THEN "" ELSE CallOutcome(j)

\* What the call hands to its caller: response['message'] if it returns, the
\* whole response as the argument of RemoteException, the method of the call
\* as the argument of RemoteAttributeError.
CallValue(j, msg, C) ==
    CASE j = 1 -> msg.body["message"]
      [] j = 2 -> [t |-> "dict", d |-> msg.body]
      [] j = 3 -> Str(C.method)
      [] OTHER -> None

\* The mark of the next result of a receive or a call of actor a: it alternates,
\* so that two successive results always differ.
Flip(a) == IF "n" \in DOMAIN ret[a] THEN 1 - ret[a].n ELSE 0

\* receive returns (pattern j, message msg) to its caller: the behaviour, or
\* Address.call (C is the call in progress, NoCall if none), which cancels its
\* timer and raises or returns.  T holds the timers armed (rt: ReceiveTimeout,
\* ct: the TimeoutError of calls) and B the boxes.
Returned(a, j, msg, T, B, C) ==
    /\ cur' = a
    /\ pos' = [pos EXCEPT ![a] = "-"]
    /\ wevent' = [wevent EXCEPT ![a] = FALSE]
    /\ already_notified' = [B.an EXCEPT ![a] = FALSE]
    /\ wake' = [B.wk EXCEPT ![a] = FALSE]
    /\ rtimer' = [rtimer EXCEPT ![a] = T.rt]
    /\ incall' = [incall EXCEPT ![a] = NoCall]
    /\ IF C.id = ""
       THEN /\ ret' = [ret EXCEPT ![a] = [op |-> "receive", j |-> j, msg |-> msg,
                                          n |-> Flip(a)]]
            /\ ctimer' = [ctimer EXCEPT ![a] = T.ct]
            /\ UNCHANGED exc
       ELSE /\ ret' = [ret EXCEPT ![a] = [op |-> "call", id |-> C.id,
                                          kind |-> CallOutcome(j), msg |-> msg,
                                          val |-> CallValue(j, msg, C),
                                          n |-> Flip(a)]]
            /\ exc' = [exc EXCEPT ![a] = CallExc(j)]
            /\ ctimer' = [ctimer EXCEPT ![a] =
                             IF C.timed THEN T.ct - 1 ELSE T.ct]

\* The loop of receive from its top, R the receive (patterns, timeout), T the
\* timers armed, B the boxes and C the call in progress: return a selected
\* message, cancelling the ReceiveTimeout timer, or suspend on a new _wevent.
ReceiveLoop(a, R, T, B, C) ==
    LET m == Select(B.mb[a], R.pats)
    IN /\ sent' = B.st
       /\ nuid' = B.nu
       /\ IF m.i # 0
          THEN /\ mailbox' = [B.mb EXCEPT ![a] = RemoveAt(@, m.i)]
               /\ got' = [got EXCEPT ![a] = Append(@, B.mb[a][m.i])]
               /\ Returned(a, m.j, B.mb[a][m.i],
                           [rt |-> IF R.timeout = "timed" THEN T.rt - 1 ELSE T.rt,
                            ct |-> T.ct], B, C)
          ELSE /\ mailbox' = B.mb
               /\ wevent' = [wevent EXCEPT ![a] = TRUE]
               /\ already_notified' = [B.an EXCEPT ![a] = FALSE]
               /\ wake' = [B.wk EXCEPT ![a] = FALSE]
               /\ pos' = [pos EXCEPT ![a] = "receive"]
               /\ cur' = Hub
               /\ rtimer' = [rtimer EXCEPT ![a] = T.rt]
               /\ ctimer' = [ctimer EXCEPT ![a] = T.ct]
               /\ incall' = [incall EXCEPT ![a] = C]
               /\ UNCHANGED <<got, ret, exc>>

\* the timers of the actor as they are
Timers(a) == [rt |-> rtimer[a], ct |-> ctimer[a]]

\* the patterns behaviours pass to receive
PatA == Tagged("A")
PatB == Tagged("B")
PatStr == "tag" :> Class("str")
PatExit == ("exit" :> Class("object")) @@ ("address" :> Class("object"))
PatException == ("exception" :> Class("object")) @@ ("address" :> Class("object"))

\* receive(*patterns, timeout=0): one look, never a suspension
ReceiveNow(a, patterns) ==
    /\ Running(a)
    /\ LET m == Select(mailbox[a], patterns)
        IN /\ rcv' = [rcv EXCEPT ![a] = [pats |-> patterns, timeout |-> "zero"]]
           /\ IF m.i # 0
              THEN /\ mailbox' = [mailbox EXCEPT ![a] = RemoveAt(@, m.i)]
                   /\ got' = [got EXCEPT ![a] = Append(@, mailbox[a][m.i])]
                   /\ ret' = [ret EXCEPT ![a] = [op |-> "receive", j |-> m.j,
                                                 msg |-> mailbox[a][m.i],
                                                 n |-> Flip(a)]]
              ELSE /\ ret' = [ret EXCEPT ![a] = [op |-> "receive", j |-> 0,
                                                 msg |-> NoMsg, n |-> Flip(a)]]
                   /\ UNCHANGED <<mailbox, got>>
    /\ ops' = ops + 1
    /\ UNCHANGED <<cur, state, pos, actor_id, all_actors, links, exit_links,
                   exit_event, wevent, already_notified, wake, waiting_on,
                   exitwake, rtimer, ctimer, resume, incall, exc, ended, sent,
                   nuid, ncall, ncast>>

\* receive(*patterns) and receive(*patterns, timeout=t) with t > 0
Receive(a, patterns, timed) ==
    /\ Running(a)
    /\ LET R == [pats |-> patterns,
                 timeout |-> IF timed THEN "timed" ELSE "none"]
        IN /\ rcv' = [rcv EXCEPT ![a] = R]
           /\ ReceiveLoop(a, R,
                          [rt |-> IF timed THEN rtimer[a] + 1 ELSE rtimer[a],
                           ct |-> ctimer[a]],
                          Boxes, NoCall)
    /\ ops' = ops + 1
    /\ UNCHANGED <<state, actor_id, all_actors, links, exit_links, exit_event,
                   waiting_on, exitwake, resume, ended, ncall, ncast>>

\* The hub runs the _do_send of the actor's _wevent: _wevent.wait() returns
\* in receive, and the loop looks at the mailbox again.
Wake(b) ==
    /\ cur = Hub
    /\ wake[b] /\ pos[b] = "receive"
    /\ ReceiveLoop(b, rcv[b], Timers(b), Boxes, incall[b])
    /\ UNCHANGED <<state, actor_id, all_actors, links, exit_links, exit_event,
                   waiting_on, exitwake, resume, rcv, ended, ncall, ncast, ops>>

\* The switches back to the actor that stay scheduled when an exception is
\* thrown into it: eventlet.sleep cancels its timer in a finally clause, and
\* nothing cancels the switch that eventlet.kill scheduled for a killer.
Unslept(b) == IF pos[b] = "sleep" THEN resume[b] - 1 ELSE resume[b]

\* An exception is thrown into a suspended actor: it leaves the suspension
\* (the finally clauses of receive, Event.wait and sleep run) and propagates.
Throw(b, e) ==
    /\ cur' = b
    /\ pos' = [pos EXCEPT ![b] = "-"]
    /\ wevent' = [wevent EXCEPT ![b] = FALSE]
    /\ already_notified' = [already_notified EXCEPT ![b] = FALSE]
    /\ wake' = [wake EXCEPT ![b] = FALSE]
    /\ waiting_on' = [waiting_on EXCEPT ![b] = 0]
    /\ exitwake' = [exitwake EXCEPT ![b] = FALSE]
    /\ resume' = [resume EXCEPT ![b] = Unslept(b)]
    /\ incall' = [incall EXCEPT ![b] = NoCall]
    /\ exc' = [exc EXCEPT ![b] = e]

\* The hub fires a ReceiveTimeout timer of the actor.  In receive it is caught
\* and (None, None) is returned, to the behaviour or to Address.call, which
\* then fails subscripting None; anywhere else it propagates.
ReceiveTimeoutFires(b) ==
    /\ cur = Hub
    /\ rtimer[b] > 0 /\ state[b] = "active" /\ pos[b] # "-"
    /\ IF pos[b] = "receive"
       THEN /\ Returned(b, 0, NoMsg,
                         [rt |-> rtimer[b] - 1, ct |-> ctimer[b]],
                         Boxes, incall[b])
            /\ UNCHANGED <<waiting_on, exitwake, resume>>
       ELSE /\ Throw(b, "ReceiveTimeout")
            /\ rtimer' = [rtimer EXCEPT ![b] = @ - 1]
            /\ UNCHANGED <<ret, ctimer>>
    /\ UNCHANGED <<state, actor_id, all_actors, mailbox, links, exit_links,
                   exit_event, rcv, ended, got, sent, nuid, ncall, ncast, ops>>

\* ------------------------------------------------------------------- wait
\* Address.wait: DeadActor on a finished actor, else Event.wait on the exit
\* event: its result at once when it has been sent, else suspend.
WaitOn(a, b) ==
    /\ Running(a)
    /\ state[b] # "unused"
    /\ b # a
    /\ IF IsDead(b)
       THEN /\ exc' = [exc EXCEPT ![a] = "DeadActor"]
            /\ UNCHANGED <<cur, pos, waiting_on, ret>>
       ELSE IF exit_event[b].kind # "unset"
       THEN /\ ret' = [ret EXCEPT ![a] = [op |-> "wait", target |-> b,
                                          out |-> exit_event[b]]]
            /\ exc' = [exc EXCEPT ![a] = IF exit_event[b].kind = "exc"
                                         THEN exit_event[b].val ELSE ""]
            /\ UNCHANGED <<cur, pos, waiting_on>>
       ELSE /\ waiting_on' = [waiting_on EXCEPT ![a] = b]
            /\ pos' = [pos EXCEPT ![a] = "wait"]
            /\ cur' = Hub
            /\ UNCHANGED <<exc, ret>>
    /\ ops' = ops + 1
    /\ UNCHANGED <<state, actor_id, all_actors, mailbox, links, exit_links,
                   exit_event, wevent, already_notified, wake, exitwake, rtimer,
                   ctimer, resume, rcv, incall, ended, got, sent, nuid, ncall,
                   ncast>>

Wait(a) == \E b \in Actors : WaitOn(a, b)

\* The hub runs the _do_send of an exit event: the waiter is switched to with
\* the value sent, or has the exception sent thrown into it.
ExitWake(w) ==
    /\ cur = Hub
    /\ exitwake[w] /\ pos[w] = "wait"
    /\ LET out == exit_event[waiting_on[w]]
       IN /\ ret' = [ret EXCEPT ![w] = [op |-> "wait", target |-> waiting_on[w],
                                        out |-> out]]
          /\ exc' = [exc EXCEPT ![w] = IF out.kind = "exc" THEN out.val ELSE ""]
    /\ cur' = w
    /\ pos' = [pos EXCEPT ![w] = "-"]
    /\ waiting_on' = [waiting_on EXCEPT ![w] = 0]
    /\ exitwake' = [exitwake EXCEPT ![w] = FALSE]
    /\ UNCHANGED <<state, actor_id, all_actors, mailbox, links, exit_links,
                   exit_event, wevent, already_notified, wake, rtimer, ctimer,
                   resume, rcv, incall, ended, got, sent, nuid, ncall, ncast,
                   ops>>

\* ------------------------------------------------------------ kill, sleep
\* Address.kill: DeadActor on a finished actor; else eventlet.kill schedules a
\* switch back to the killer and throws Killed into the target.  A target that
\* has not started yet finishes without running run().
KillActor(a, b) ==
    /\ Running(a)
    /\ state[b] # "unused"
    /\ b # a
    /\ IF IsDead(b)
       THEN /\ exc' = [exc EXCEPT ![a] = "DeadActor"]
            /\ UNCHANGED <<cur, state, pos, wevent, already_notified, wake,
                           waiting_on, exitwake, resume, incall>>
       ELSE IF state[b] = "new"
       THEN /\ state' = [state EXCEPT ![b] = "dead"]
            /\ cur' = Hub
            /\ pos' = [pos EXCEPT ![a] = "kill"]
            /\ resume' = [resume EXCEPT ![a] = @ + 1]
            /\ UNCHANGED <<exc, wevent, already_notified, wake, waiting_on,
                           exitwake, incall>>
       ELSE /\ cur' = b
            /\ pos' = [pos EXCEPT ![b] = "-", ![a] = "kill"]
            /\ wevent' = [wevent EXCEPT ![b] = FALSE]
            /\ already_notified' = [already_notified EXCEPT ![b] = FALSE]
            /\ wake' = [wake EXCEPT ![b] = FALSE]
            /\ waiting_on' = [waiting_on EXCEPT ![b] = 0]
            /\ exitwake' = [exitwake EXCEPT ![b] = FALSE]
            /\ resume' = [resume EXCEPT ![b] = Unslept(b), ![a] = @ + 1]
            /\ incall' = [incall EXCEPT ![b] = NoCall]
            /\ exc' = [exc EXCEPT ![b] = "Killed"]
            /\ UNCHANGED state
    /\ ops' = ops + 1
    /\ UNCHANGED <<actor_id, all_actors, mailbox, links, exit_links, exit_event,
                   rtimer, ctimer, rcv, ret, ended, got, sent, nuid, ncall,
                   ncast>>

Kill(a) == \E b \in Actors : KillActor(a, b)

\* Actor.sleep / Actor.cooperate: eventlet.sleep schedules a switch back
Sleep(a) ==
    /\ Running(a)
    /\ pos' = [pos EXCEPT ![a] = "sleep"]
    /\ resume' = [resume EXCEPT ![a] = @ + 1]
    /\ cur' = Hub
    /\ ops' = ops + 1
    /\ UNCHANGED <<state, actor_id, all_actors, mailbox, links, exit_links,
                   exit_event, wevent, already_notified, wake, waiting_on,
                   exitwake, rtimer, ctimer, rcv, incall, exc, ret, ended, got,
                   sent, nuid, ncall, ncast>>

\* The hub runs the earliest scheduled switch back to the actor, wherever the
\* actor is suspended by then.  kill returns.  sleep returns and cancels its
\* own timer, which is the later one if a killer's switch was still pending.
\* Event.wait returns what the switch delivered, the empty tuple of a switch()
\* without arguments: in receive the value is dropped and the loop looks at the
\* mailbox again, and Address.wait returns () although the target has not
\* ended; the _do_send of the event finds the actor no longer among its waiters.
Resume(a) ==
    /\ cur = Hub
    /\ resume[a] > 0 /\ state[a] = "active" /\ pos[a] # "-"
    /\ resume' = [resume EXCEPT ![a] = IF pos[a] = "sleep" /\ @ >= 2
                                       THEN @ - 2 ELSE @ - 1]
    /\ IF pos[a] = "receive"
       THEN /\ ReceiveLoop(a, rcv[a], Timers(a), Boxes, incall[a])
            /\ UNCHANGED <<waiting_on, exitwake>>
       ELSE /\ cur' = a
            /\ pos' = [pos EXCEPT ![a] = "-"]
            /\ IF pos[a] = "wait"
               THEN /\ ret' = [ret EXCEPT ![a] =
                                  [op |-> "wait", target |-> waiting_on[a],
                                   out |-> [kind |-> "value", val |-> EmptyTuple]]]
                    /\ waiting_on' = [waiting_on EXCEPT ![a] = 0]
                    /\ exitwake' = [exitwake EXCEPT ![a] = FALSE]
               ELSE UNCHANGED <<ret, waiting_on, exitwake>>
            /\ UNCHANGED <<mailbox, wevent, already_notified, wake, rtimer,
                           ctimer, incall, exc, got, sent, nuid>>
    /\ UNCHANGED <<state, actor_id, all_actors, links, exit_links, exit_event,
                   rcv, ended, ncall, ncast, ops>>

\* ------------------------------------------------------- call, respond
CALL_PATTERN ==
    ("call" :> Class("str")) @@ ("method" :> Class("str"))
        @@ ("address" :> Class("Address")) @@ ("message" :> Class("object"))
RESPONSE_PATTERN == ("response" :> Class("str")) @@ ("message" :> Class("object"))
INVALID_METHOD_PATTERN ==
    ("response" :> Class("str")) @@ ("invalid_method" :> Class("str"))
EXCEPTION_PATTERN ==
    ("response" :> Class("str")) @@ ("exception" :> Class("object"))

\* the message Address.call casts
CallMessage(id, method, a) ==
    ("call" :> Str(id)) @@ ("method" :> Str(method))
        @@ ("address" :> Addr(a)) @@ ("message" :> None)

\* Faulty patterns of a call, which would take the response to any call.
CallPatternsAnyId(id) ==
    <<RESPONSE_PATTERN, EXCEPTION_PATTERN, INVALID_METHOD_PATTERN>>

\* RSP, EXC, INV of Address.call: the patterns of the responses to call id
CallPatterns(id) ==
    << ("response" :> Str(id)) @@ ("message" :> Class("object")),
       ("response" :> Str(id)) @@ ("exception" :> Class("object")),
       ("response" :> Str(id)) @@ ("invalid_method" :> Class("str")) >>

\* A faulty call, which would arm no timer.
CallTimerNone(ct, timed) == ct

\* Address.call: with a timeout, eventlet.Timeout(timeout, eventlet.TimeoutError)
\* adds a timer of the hub to those that can fire in the caller.
CallTimer(ct, timed) == IF timed THEN ct + 1 ELSE ct

\* Address.call(method, message=None, timeout): a fresh id, the cast of the call
\* message (which may raise), the TimeoutError timer if there is a timeout,
\* then the receive of the response.
Call(a, b, method, timed) ==
    /\ Running(a)
    /\ ncall < MaxCalls
    /\ state[b] # "unused"
    /\ LET id == CallIdSeq[ncall + 1]
           r == AddressCast(Boxes, a, b, CallMessage(id, method, a))
           R == [pats |-> CallPatterns(id), timeout |-> "none"]
       IN IF r.err # ""
          THEN /\ exc' = [exc EXCEPT ![a] = r.err]
               /\ UNCHANGED <<cur, pos, mailbox, wevent, already_notified, wake,
                              rtimer, ctimer, rcv, incall, ret, got, sent, nuid>>
          ELSE /\ rcv' = [rcv EXCEPT ![a] = R]
               /\ ReceiveLoop(a, R,
                              [rt |-> rtimer[a],
                               ct |-> CallTimer(ctimer[a], timed)],
                              r.B,
                              [id |-> id, method |-> method, timed |-> timed])
    /\ ncall' = ncall + 1
    /\ ops' = ops + 1
    /\ UNCHANGED <<state, actor_id, all_actors, links, exit_links, exit_event,
                   waiting_on, exitwake, resume, ended, ncast>>

\* The hub fires the TimeoutError timer of a call: the exception is thrown
\* into the suspended caller and leaves receive and call.
CallTimeoutFires(b) ==
    /\ cur = Hub
    /\ ctimer[b] > 0 /\ state[b] = "active" /\ pos[b] # "-"
    /\ Throw(b, "TimeoutError")
    /\ ctimer' = [ctimer EXCEPT ![b] = @ - 1]
    /\ UNCHANGED <<state, actor_id, all_actors, mailbox, links, exit_links,
                   exit_event, rtimer, rcv, ret, ended, got, sent, nuid, ncall,
                   ncast, ops>>

\* A faulty response, which would carry the name of the method for the id.
ResponseBodyMethodForId(kind, orig) ==
    CASE kind = "message" ->
            ("response" :> orig["method"]) @@ ("message" :> Num(7))
      [] kind = "exception" ->
            ("response" :> orig["method"]) @@ ("exception" :> Tree("ValueError"))
      [] kind = "invalid_method" ->
            ("response" :> orig["method"]) @@ ("invalid_method" :> orig["method"])

\* what respond, respond_exception and respond_invalid_method cast
ResponseBody(kind, orig) ==
    CASE kind = "message" ->
            ("response" :> orig["call"]) @@ ("message" :> Num(7))
      [] kind = "exception" ->
            ("response" :> orig["call"]) @@ ("exception" :> Tree("ValueError"))
      [] kind = "invalid_method" ->
            ("response" :> orig["call"]) @@ ("invalid_method" :> orig["method"])

ResponseKinds == {"message", "exception", "invalid_method"}

\* Actor.respond, respond_exception, respond_invalid_method on the message the
\* behaviour received last: InvalidCallMessage unless it has the shape of a
\* call, else the cast of the response to the caller's address.
Respond(a, kind) ==
    /\ Running(a)
    /\ ret[a].op = "receive" /\ ret[a].j # 0
    /\ LET orig == ret[a].msg.body
       IN IF ~is_shaped(orig, CALL_PATTERN)
          THEN /\ exc' = [exc EXCEPT ![a] = "InvalidCallMessage"]
               /\ UNCHANGED <<mailbox, already_notified, wake, sent, nuid>>
          ELSE LET r == AddressCast(Boxes, a, orig["address"].a,
                                    ResponseBody(kind, orig))
               IN /\ SetBoxes(r.B)
                  /\ exc' = [exc EXCEPT ![a] = r.err]
    /\ ops' = ops + 1
    /\ UNCHANGED <<cur, state, pos, actor_id, all_actors, links, exit_links,
                   exit_event, wevent, waiting_on, exitwake, rtimer, ctimer,
                   resume, rcv, incall, ret, ended, got, ncall, ncast>>

\* ------------------------------------------------------------ the system
\* Lifecycle and links: actors spawn, link, wait on and kill each other, and
\* end by returning or raising.
LifeSpawn(a) == ops < MaxOps /\ Spawn(a)
LifeSpawnLink(a) == ops < MaxOps /\ SpawnLink(a)
LifeLink(a) == ops < MaxOps /\ Link(a)
LifeAddLink(a) == ops < MaxOps /\ AddLink(a)
LifeWait(a) == ops < MaxOps /\ Wait(a)
LifeKill(a) == ops < MaxOps /\ Kill(a)

Next ==
    \E a \in Actors :
        \/ Start(a)
        \/ ExitWake(a)
        \/ Resume(a)
        \/ Return(a)
        \/ Raise(a)
        \/ Die(a)
        \/ Catch(a)
        \/ LifeSpawn(a)
        \/ LifeSpawnLink(a)
        \/ LifeLink(a)
        \/ LifeAddLink(a)
        \/ LifeWait(a)
        \/ LifeKill(a)

Spec == Init /\ [][Next]_vars

\* The hub runs every switch that an exit event has scheduled for a waiter
\* (each _do_send is a timer of the hub), and a behaviour that runs ends or
\* suspends.
LifeBehaviourEnds == \E a \in Actors : Return(a) \/ Raise(a) \/ Die(a)
FairSpec ==
    /\ Init
    /\ [][Next]_vars
    /\ \A w \in Actors : WF_vars(ExitWake(w))
    /\ \A a \in Actors : WF_vars(Resume(a))
    /\ WF_vars(LifeBehaviourEnds)

\* Mailboxes: actors cast tagged messages to each other and receive them
\* selectively, with and without timeouts.
MailBodies == {Tagged("A"), Tagged("B")}
MailPatterns == {<<>>, <<PatA>>, <<PatB, PatStr>>}

InitMail == InitWith(1..MailActors)

MailSleep(a) == ops < MaxMailOps /\ Sleep(a)
MailCast(a) ==
    /\ ops < MaxMailOps
    /\ \E b \in 1..MailActors, body \in MailBodies : Cast(a, b, body)
MailReceiveNow(a) ==
    /\ ops < MaxMailOps
    /\ \E patterns \in MailPatterns : ReceiveNow(a, patterns)
MailReceive(a) ==
    /\ ops < MaxMailOps
    /\ \E patterns \in MailPatterns, timed \in BOOLEAN :
          Receive(a, patterns, timed)

NextMail ==
    \E a \in 1..MailActors :
        \/ Start(a)
        \/ Wake(a)
        \/ Resume(a)
        \/ ReceiveTimeoutFires(a)
        \/ Return(a)
        \/ Die(a)
        \/ Catch(a)
        \/ MailSleep(a)
        \/ MailCast(a)
        \/ MailReceiveNow(a)
        \/ MailReceive(a)

SpecMail == InitMail /\ [][NextMail]_vars

\* Mailbox order: two senders cast tagged messages to one recipient and sleep
\* between casts, which lets the casts of the other come in between; the
\* recipient receives selectively, with and without timeouts; its mailbox
\* comes to hold up to MaxOrderCasts messages.
OrderSenders == {2, 3}
OrderRecipients == {1}
OrderActors == OrderRecipients \cup OrderSenders
InitOrder == InitWith(OrderActors)
OrderCast(a) ==
    /\ ops < MaxOrderOps
    /\ ncast < MaxOrderCasts
    /\ \E b \in OrderRecipients, body \in MailBodies : CastMessage(a, b, body)
OrderSleep(a) == ops < MaxOrderOps /\ Sleep(a)
OrderReceiveNow(a) ==
    /\ ops < MaxOrderOps
    /\ \E patterns \in MailPatterns : ReceiveNow(a, patterns)
OrderReceive(a) ==
    /\ ops < MaxOrderOps
    /\ \E patterns \in MailPatterns, timed \in BOOLEAN :
          Receive(a, patterns, timed)

NextOrder ==
    \/ \E a \in OrderActors :
          \/ Start(a)
          \/ Wake(a)
          \/ ReceiveTimeoutFires(a)
          \/ Return(a)
          \/ Die(a)
          \/ Catch(a)
    \/ \E a \in OrderSenders :
          \/ OrderCast(a)
          \/ OrderSleep(a)
          \/ Resume(a)
    \/ \E a \in OrderRecipients :
          \/ OrderReceiveNow(a)
          \/ OrderReceive(a)

SpecOrder == InitOrder /\ [][NextOrder]_vars

\* Two actors that call each other and answer: calls with and without a
\* timeout, receives of call messages, and the three responses (at any time,
\* and more than once).
CallActors == {1, 2}
InitCall == InitWith(CallActors)
CallOp(a) ==
    /\ ops < MaxCallOps
    /\ \E b \in CallActors, timed \in BOOLEAN : Call(a, b, "m", timed)
CallServe(a) ==
    /\ ops < MaxCallOps
    /\ Receive(a, <<CALL_PATTERN>>, FALSE)
CallRespond(a) ==
    /\ ops < MaxCallOps
    /\ \E kind \in ResponseKinds : Respond(a, kind)

NextCall ==
    \E a \in CallActors :
        \/ Start(a)
        \/ Wake(a)
        \/ CallTimeoutFires(a)
        \/ Return(a)
        \/ Die(a)
        \/ Catch(a)
        \/ CallOp(a)
        \/ CallServe(a)
        \/ CallRespond(a)

SpecCall == InitCall /\ [][NextCall]_vars

\* Actors that suspend in receive, with and without a timeout, while others
\* cast to them.
WakePatterns == {<<PatA>>}
WakeCast(a) ==
    /\ ops < MaxMailOps
    /\ \E b \in 1..MailActors, body \in MailBodies : Cast(a, b, body)
WakeReceive(a) ==
    /\ ops < MaxMailOps
    /\ \E patterns \in WakePatterns, timed \in BOOLEAN :
          Receive(a, patterns, timed)

NextWake ==
    \E a \in 1..MailActors :
        \/ Start(a)
        \/ Wake(a)
        \/ ReceiveTimeoutFires(a)
        \/ Return(a)
        \/ Die(a)
        \/ Catch(a)
        \/ WakeCast(a)
        \/ WakeReceive(a)

\* The hub runs every switch that has been scheduled (each _do_send is a timer
\* of the hub, and the hub's loop fires all the timers that are due), and a
\* behaviour that runs ends or suspends (the scheduling is cooperative).
BehaviourEnds == \E a \in 1..MailActors : Return(a) \/ Die(a)
FairSpecWake ==
    /\ InitMail
    /\ [][NextWake]_vars
    /\ \A a \in 1..MailActors : WF_vars(Wake(a))
    /\ WF_vars(BehaviourEnds)

\* Calls that get no reply: two actors call each other with and without a
\* timeout, receive the call messages, cast other messages, and never respond.
TimeoutCall(a) ==
    /\ ops < MaxTimeoutOps
    /\ \E b \in CallActors, timed \in BOOLEAN : Call(a, b, "m", timed)
TimeoutServe(a) ==
    /\ ops < MaxTimeoutOps
    /\ Receive(a, <<CALL_PATTERN>>, FALSE)
TimeoutCast(a) ==
    /\ ops < MaxTimeoutOps
    /\ \E b \in CallActors : Cast(a, b, Tagged("A"))

NextTimeout ==
    \E a \in CallActors :
        \/ Start(a)
        \/ Wake(a)
        \/ CallTimeoutFires(a)
        \/ Return(a)
        \/ Die(a)
        \/ Catch(a)
        \/ TimeoutCall(a)
        \/ TimeoutServe(a)
        \/ TimeoutCast(a)

\* The hub fires every timer that is due (the TimeoutError timer of a call is
\* one), and a behaviour that runs ends or suspends.
CallBehaviourEnds == \E a \in CallActors : Return(a) \/ Die(a)
FairSpecTimeout ==
    /\ InitCall
    /\ [][NextTimeout]_vars
    /\ \A a \in CallActors : WF_vars(CallTimeoutFires(a))
    /\ WF_vars(CallBehaviourEnds)

\* The operations of an Address: two actors cast to, call, link to, wait on
\* and kill each other, alive or finished, and end by returning or raising.
AddrActors == {1, 2}
InitAddr == InitWith(AddrActors)
AddrCast(a) ==
    /\ ops < MaxAddrOps
    /\ \E b \in AddrActors : Cast(a, b, Tagged("A"))
AddrCall(a) ==
    /\ ops < MaxAddrOps
    /\ \E b \in AddrActors, timed \in BOOLEAN : Call(a, b, "m", timed)
AddrLink(a) == ops < MaxAddrOps /\ Link(a)
AddrWait(a) == ops < MaxAddrOps /\ Wait(a)
AddrKill(a) == ops < MaxAddrOps /\ Kill(a)

NextAddr ==
    \E a \in AddrActors :
        \/ Start(a)
        \/ Wake(a)
        \/ ExitWake(a)
        \/ Resume(a)
        \/ CallTimeoutFires(a)
        \/ Return(a)
        \/ Raise(a)
        \/ Die(a)
        \/ Catch(a)
        \/ AddrCast(a)
        \/ AddrCall(a)
        \/ AddrLink(a)
        \/ AddrWait(a)
        \/ AddrKill(a)

SpecAddr == InitAddr /\ [][NextAddr]_vars

\* Killing: three actors sleep, suspend in receive, link to, wait on and kill
\* each other, and end by returning or of an exception.
KillActors == {1, 2, 3}
InitKill == InitWith(KillActors)
KillSleep(a) == ops < MaxKillOps /\ Sleep(a)
KillReceive(a) == ops < MaxKillOps /\ Receive(a, <<PatA>>, FALSE)
KillLink(a) == ops < MaxKillOps /\ Link(a)
KillWait(a) == ops < MaxKillOps /\ Wait(a)
KillKill(a) == ops < MaxKillOps /\ Kill(a)

NextKill ==
    \E a \in KillActors :
        \/ Start(a)
        \/ Wake(a)
        \/ ExitWake(a)
        \/ Resume(a)
        \/ Return(a)
        \/ Die(a)
        \/ Catch(a)
        \/ KillSleep(a)
        \/ KillReceive(a)
        \/ KillLink(a)
        \/ KillWait(a)
        \/ KillKill(a)

SpecKill == InitKill /\ [][NextKill]_vars

\* Names: two actors rename themselves, spawn, sleep and end.
RenameActors == {1, 2}
InitRename == InitWith(RenameActors)
NameRename(a) == ops < MaxRenameOps /\ Rename(a)
NameSpawn(a) == ops < MaxRenameOps /\ Spawn(a)
NameSleep(a) == ops < MaxRenameOps /\ Sleep(a)

NextRename ==
    \E a \in Actors :
        \/ Start(a)
        \/ Resume(a)
        \/ Return(a)
        \/ Die(a)
        \/ NameRename(a)
        \/ NameSpawn(a)
        \/ NameSleep(a)

SpecRename == InitRename /\ [][NextRename]_vars

\* Responses: two actors cast plain messages and call messages to each
\* other, receive any message, and respond to the message received last.
RespondActors == {1, 2}
InitRespond == InitWith(RespondActors)
RespondBodies(a) == {Tagged("A"), CallMessage("k1", "m", a)}
RespondCast(a) ==
    /\ ops < MaxRespondOps
    /\ \E b \in RespondActors, body \in RespondBodies(a) : Cast(a, b, body)
RespondReceive(a) == ops < MaxRespondOps /\ Receive(a, <<>>, FALSE)
RespondRespond(a) ==
    /\ ops < MaxRespondOps
    /\ \E kind \in ResponseKinds : Respond(a, kind)

NextRespond ==
    \E a \in RespondActors :
        \/ Start(a)
        \/ Wake(a)
        \/ Return(a)
        \/ Die(a)
        \/ Catch(a)
        \/ RespondCast(a)
        \/ RespondReceive(a)
        \/ RespondRespond(a)

SpecRespond == InitRespond /\ [][NextRespond]_vars

\* A behaviour puts what follows under eventlet.Timeout(t, TimeoutError), as
\* Address.call does for its receive: one more timer of the hub that throws
\* TimeoutError into the actor when it is suspended.
ArmTimeout(a) ==
    /\ Running(a)
    /\ ctimer' = [ctimer EXCEPT ![a] = @ + 1]
    /\ ops' = ops + 1
    /\ UNCHANGED <<cur, state, pos, actor_id, all_actors, mailbox, links,
                   exit_links, exit_event, wevent, already_notified, wake,
                   waiting_on, exitwake, rtimer, resume, rcv, incall, exc, ret,
                   ended, got, sent, nuid, ncall, ncast>>

\* Receives under a Timeout: two actors cast to each other and receive, with
\* and without a timeout of the receive, with and without a Timeout around.
LeakActors == {1, 2}
InitLeak == InitWith(LeakActors)
LeakArm(a) == ops < MaxLeakOps /\ ArmTimeout(a)
LeakReceive(a) ==
    /\ ops < MaxLeakOps
    /\ \E timed \in BOOLEAN : Receive(a, <<PatA>>, timed)
LeakCast(a) ==
    /\ ops < MaxLeakOps
    /\ \E b \in LeakActors : Cast(a, b, Tagged("A"))

NextLeak ==
    \E a \in LeakActors :
        \/ Start(a)
        \/ Wake(a)
        \/ ReceiveTimeoutFires(a)
        \/ CallTimeoutFires(a)
        \/ Return(a)
        \/ Die(a)
        \/ Catch(a)
        \/ LeakArm(a)
        \/ LeakReceive(a)
        \/ LeakCast(a)

SpecLeak == InitLeak /\ [][NextLeak]_vars

\* ----------------------------------------------------------------- Server
\* The Server subclass: method foo returns a value, method boom raises; it has
\* no attribute of any other name that a call of this system carries.
ServerReturns == {"foo"}
ServerRaises == {"boom"}
ServerAttributes == ServerReturns \cup ServerRaises
MethodNames == {"foo", "boom", "bar"}

\* Server.main, before the loop: self.start(*args, **kw), a hook that does
\* nothing unless overridden.
ServerStart(s) ==
    /\ Running(s)
    /\ ret[s].op = "none"
    /\ ret' = [ret EXCEPT ![s] = [op |-> "start", n |-> Flip(s)]]
    /\ UNCHANGED <<cur, state, pos, actor_id, all_actors, mailbox, links,
                   exit_links, exit_event, wevent, already_notified, wake,
                   waiting_on, exitwake, rtimer, ctimer, resume, rcv, incall,
                   exc, ended, got, sent, nuid, ncall, ncast, ops>>

\* Server.main, top of the loop: self.receive(CALL_PATTERN).
ServerReceive(s) ==
    /\ ret[s].op \in {"start", "serve"}
    /\ Receive(s, <<CALL_PATTERN>>, FALSE)

\* A faulty clause, 'except Exception', which a Killed would pass by.
FinallyExceptionOnly(e) == e # "Killed"

\* 'try: ... finally:' of Server.main: the clause runs whatever exception
\* leaves the loop.
Finally(e) == TRUE

\* Server.main, the finally clause: self.stop(*args, **kw), when an exception
\* leaves the loop (the loop has no other end).
ServerStop(s) ==
    /\ cur = s /\ state[s] = "active" /\ exc[s] # ""
    /\ ret[s].op \notin {"none", "stop"}
    /\ Finally(exc[s])
    /\ ret' = [ret EXCEPT ![s] = [op |-> "stop", n |-> Flip(s)]]
    /\ UNCHANGED <<cur, state, pos, actor_id, all_actors, mailbox, links,
                   exit_links, exit_event, wevent, already_notified, wake,
                   waiting_on, exitwake, rtimer, ctimer, resume, rcv, incall,
                   exc, ended, got, sent, nuid, ncall, ncast, ops>>

\* The exception leaves Server.main after the finally clause, and run() ends.
ServerDie(s) ==
    /\ ret[s].op = "stop" \/ ~Finally(exc[s])
    /\ Die(s)

\* The casts of one turn of the loop of Server.main for the message received:
\* respond_invalid_method without an attribute of the name; else respond with
\* what the method returns, and respond_exception when the method or the
\* respond raised an Exception.  The result has the exception that leaves the
\* loop, if any.
ServerCasts(s, orig) ==
    LET to == orig["address"].a
        method == orig["method"].s
        inv == AddressCast(Boxes, s, to, ResponseBody("invalid_method", orig))
        rsp == AddressCast(Boxes, s, to, ResponseBody("message", orig))
        excOf(B) == AddressCast(B, s, to, ResponseBody("exception", orig))
    IN IF method \notin ServerAttributes THEN inv
       ELSE IF method \in ServerRaises THEN excOf(Boxes)
       ELSE IF rsp.err # "" THEN excOf(rsp.B)
       ELSE rsp

\* Server.main, the rest of the loop after receive returned a message.
ServerDispatch(s) ==
    /\ Running(s)
    /\ ret[s].op = "receive" /\ ret[s].j # 0
    /\ LET r == ServerCasts(s, ret[s].msg.body)
       IN /\ SetBoxes(r.B)
          /\ exc' = [exc EXCEPT ![s] = r.err]
    /\ ret' = [ret EXCEPT ![s] = [op |-> "serve", msg |-> ret[s].msg,
                                  n |-> Flip(s)]]
    /\ ops' = ops + 1
    /\ UNCHANGED <<cur, state, pos, actor_id, all_actors, links, exit_links,
                   exit_event, wevent, waiting_on, exitwake, rtimer, ctimer,
                   resume, rcv, incall, ended, got, ncall, ncast>>

\* A Server and its clients: the clients call the methods of the Server, with
\* and without a timeout, cast other messages to it, and end.
TheServer == 1
ServerClients == {2, 3}
InitServer == InitWith({TheServer} \cup ServerClients)
ServerTurn == ops < MaxServerOps /\ ServerReceive(TheServer)
ServerReply == ops < MaxServerOps /\ ServerDispatch(TheServer)
ClientCall(a) ==
    /\ ops < MaxServerOps
    /\ \E method \in MethodNames, timed \in BOOLEAN :
          Call(a, TheServer, method, timed)
ClientCast(a) ==
    /\ ops < MaxServerOps
    /\ \E body \in MailBodies : Cast(a, TheServer, body)

ClientKill(a) == ops < MaxServerOps /\ KillActor(a, TheServer)

NextServer ==
    \/ ServerStart(TheServer)
    \/ ServerTurn
    \/ ServerReply
    \/ ServerStop(TheServer)
    \/ ServerDie(TheServer)
    \/ \E a \in {TheServer} \cup ServerClients :
          \/ Start(a)
          \/ Wake(a)
    \/ \E a \in ServerClients :
          \/ Die(a)
          \/ Resume(a)
          \/ CallTimeoutFires(a)
          \/ ClientKill(a)
          \/ Return(a)
          \/ ClientCall(a)
          \/ ClientCast(a)

SpecServer == InitServer /\ [][NextServer]_vars

\* ----------------------------------------------------------------- Gather
\* a JSON list
List(q) == [t |-> "list", l |-> q]

\* The loop of Gather.main over the messages its receives return, in order:
\* iteration i files the message under its address and, if the address at the
\* cursor has a message, appends that message to the results and moves the
\* cursor by one.
RECURSIVE GatherLoop(_, _, _, _, _, _)
GatherLoop(address_list, received, i, messages, current_index, results) ==
    IF i > Len(address_list) THEN results
    ELSE LET message == received[i].body
             filed == (message["address"].a :> message) @@ messages
         IN IF address_list[current_index] \in DOMAIN filed
            THEN GatherLoop(address_list, received, i + 1, filed,
                            current_index + 1,
                            Append(results, filed[address_list[current_index]]))
            ELSE GatherLoop(address_list, received, i + 1, filed,
                            current_index, results)

\* wait_all(*spawnable_list) from the main greenlet: actor 1 is the Gather it
\* spawns, and the others are the actors Gather.main makes with spawn_link, one
\* for each behaviour of the list, in the order of the list.
TheGather == 1
GatherChildren == Actors \ {TheGather}
address_list == [i \in 1..Cardinality(GatherChildren) |-> i + 1]

\* Gather.main: address_list = [spawn_link(x) for x in spawnable_list]
GatherSpawnLink(g) ==
    /\ ret[g].op \in {"none", "spawn"}
    /\ SpawnLink(g)

\* Gather.main: the receive of an iteration of the loop
GatherReceive(g) ==
    /\ \A c \in GatherChildren : state[c] # "unused"
    /\ Len(got[g]) < Len(address_list)
    /\ Receive(g, <<PatExit, PatException>>, FALSE)

\* Gather.main: return results
GatherReturn(g) ==
    /\ Running(g)
    /\ \A c \in GatherChildren : state[c] # "unused"
    /\ Len(got[g]) = Len(address_list)
    /\ Finish(g, [kind |-> "value",
                  val |-> List(GatherLoop(address_list, got[g], 1, <<>>, 1,
                                          <<>>))])

\* The behaviours of the list sleep some times and return.
ChildSleep(c) == ops < MaxGatherOps /\ Sleep(c)

\* The hub fires the spawn_after(0) timers in the order they were scheduled.
StartInOrder(a) ==
    /\ \A c \in Actors : c < a => state[c] # "new"
    /\ Start(a)

InitGather == InitWith({TheGather})
NextGather ==
    \/ GatherSpawnLink(TheGather)
    \/ GatherReceive(TheGather)
    \/ GatherReturn(TheGather)
    \/ \E a \in Actors :
          \/ StartInOrder(a)
          \/ Wake(a)
          \/ Resume(a)
    \/ \E c \in GatherChildren :
          \/ ChildSleep(c)
          \/ Return(c)

SpecGather == InitGather /\ [][NextGather]_vars

\* The same, with behaviours of the list that raise.
NextGatherRaise ==
    \/ NextGather
    \/ \E c \in GatherChildren : Raise(c)

SpecGatherRaise == InitGather /\ [][NextGatherRaise]_vars

\* ================================================================ properties
\* Range of a sequence
Range(q) == {q[i] : i \in DOMAIN q}

\* The actor's run() has ended (the behaviour returned or raised).
Terminated(A) == ended[A].kind # "unset"

\* How many messages of the given key ("exit" or "exception") about actor A
\* have been put in the mailbox of actor b.
Notifications(b, A, key) ==
    Cardinality({i \in DOMAIN sent[b] :
                    /\ DOMAIN sent[b][i].body = {"address", key}
                    /\ sent[b][i].body["address"] = Addr(A)})

\* ------------------------------------------------------------------- C1
\* C1: a wait() begun before the target terminated yields how the target's
\* behaviour ended: the value it returned, or the exception it raised (thrown
\* in the waiter); and all the waiters of one target observe the same outcome.
C1_WaitOutcome ==
    [][\A w \in Actors :
          (ret'[w] # ret[w] /\ ret'[w].op = "wait") =>
              LET b == ret'[w].target
                  out == ret'[w].out
              IN /\ pos[w] = "wait" /\ waiting_on[w] = b
                 /\ out.kind # "unset"
                 /\ out = ended'[b]
                 /\ exc'[w] = (IF out.kind = "exc" THEN out.val ELSE "")
                 /\ \A w2 \in Actors :
                       (ret'[w2].op = "wait" /\ ret'[w2].target = b)
                           => ret'[w2].out = out]_vars

\* Two waiters of one target have both had its exception thrown in them.
C1_Witness ==
    \E w1, w2 \in Actors :
        /\ w1 # w2
        /\ ret[w1].op = "wait" /\ ret[w2].op = "wait"
        /\ ret[w1].target = ret[w2].target
        /\ ret[w1].out.kind = "exc"
        /\ ended[ret[w1].target] = [kind |-> "exc", val |-> "RuntimeError"]

\* ------------------------------------------------------------------- C2
\* C2: once actor A has terminated, each observer b of A's link set has received
\* exactly one exception message about A if A failed and none if it returned,
\* and each b of A's exit-link set has received exactly one exit message about
\* A; no observer has more than one message of either shape about A.  (Stated
\* for the observers that are still alive.)
C2_OneNotificationEach ==
    \A A, b \in Actors :
        (Terminated(A) /\ state[b] = "active") =>
            /\ b \in Range(links[A]) =>
                  Notifications(b, A, "exception") =
                      (IF ended[A].kind = "exc" THEN 1 ELSE 0)
            /\ b \in Range(exit_links[A]) => Notifications(b, A, "exit") = 1
            /\ Notifications(b, A, "exception") <= 1
            /\ Notifications(b, A, "exit") <= 1

\* ------------------------------------------------------------------- C3
\* C3: once actor A has terminated, its exit signal holds the value returned or
\* the exception raised, and every observer of its exit-link set has received
\* {address: A, exit: v}, v the value returned, None after an exception.
\* (Stated for the observers that are still alive.)
C3_ExitCarriesOutcome ==
    \A A \in Actors :
        Terminated(A) =>
            /\ exit_event[A] = ended[A]
            /\ \A b \in Range(exit_links[A]) :
                  state[b] = "active" =>
                      \E i \in DOMAIN sent[b] :
                          sent[b][i].body =
                              ExitMessage(A, IF ended[A].kind = "exc"
                                             THEN None ELSE ended[A].val)

\* ------------------------------------------------------------- mailboxes
\* The message matches the patterns of a receive (any message, without patterns).
Matches(body, patterns) ==
    \/ patterns = <<>>
    \/ \E q \in 1..Len(patterns) : is_shaped(body, patterns[q])

\* This step, a receive of actor a gives its result (a message or the sentinel).
ReceiveResult(a) == ret'[a] # ret[a] /\ ret'[a].op = "receive"

\* This step, a receive of actor a returns a message.
ReceiveReturns(a) == ReceiveResult(a) /\ ret'[a].j # 0

Occurrences(q, m) == Cardinality({i \in DOMAIN q : q[i] = m})

\* ------------------------------------------------------------------- C4
\* C4: a receive with patterns returns the earliest message of the mailbox that
\* matches one of them (no message before it matches any of the patterns,
\* whatever the place of the pattern), with the first pattern in argument
\* order that this message matches; a receive without patterns returns the
\* first message of the mailbox.
C4_EarliestMatch ==
    [][\A a \in Actors :
          ReceiveReturns(a) =>
              LET mb == mailbox[a]
                  P == rcv'[a].pats
                  m == ret'[a].msg
                  j == ret'[a].j
              IN IF P = <<>>
                 THEN mb # <<>> /\ m = mb[1] /\ j = AnyPattern
                 ELSE /\ j \in 1..Len(P)
                      /\ is_shaped(m.body, P[j])
                      /\ \A k \in 1..(j - 1) : ~is_shaped(m.body, P[k])
                      /\ \E i \in 1..Len(mb) :
                            /\ mb[i] = m
                            /\ \A k \in 1..(i - 1) : ~Matches(mb[k].body, P)]_vars

\* A receive has returned a message with its second pattern while a later
\* message, which matches its first pattern, is left in the mailbox.
C4_Witness ==
    \E a \in Actors :
        /\ cur = a /\ ret[a].op = "receive" /\ ret[a].j = 2
        /\ \E i \in DOMAIN mailbox[a] :
              /\ mailbox[a][i].uid > ret[a].msg.uid
              /\ is_shaped(mailbox[a][i].body, rcv[a].pats[1])

\* ------------------------------------------------------------------- C5
\* C5: a receive that returns a message removes that message from the mailbox
\* and no other: the messages before it and after it stay, in their order; and
\* a step in which the owner's receive returns nothing removes nothing.
C5_RemovesExactlyOne ==
    [][\A a \in Actors :
          IF ReceiveReturns(a)
          THEN \E i \in 1..Len(mailbox[a]) :
                  /\ mailbox[a][i] = ret'[a].msg
                  /\ Len(mailbox'[a]) = Len(mailbox[a]) - 1
                  /\ \A k \in 1..(i - 1) : mailbox'[a][k] = mailbox[a][k]
                  /\ \A k \in i..(Len(mailbox[a]) - 1) :
                        mailbox'[a][k] = mailbox[a][k + 1]
          ELSE /\ Len(mailbox'[a]) >= Len(mailbox[a])
               /\ SubSeq(mailbox'[a], 1, Len(mailbox[a])) = mailbox[a]]_vars

\* A receive has returned the third of four messages, the only one that its
\* pattern matches: the two before it and the one after it are left, in the
\* order of their casts.
C5_Witness ==
    \E a \in Actors :
        /\ cur = a /\ ret[a].op = "receive" /\ ret[a].j # 0
        /\ Len(mailbox[a]) = 3
        /\ mailbox[a][1].uid < mailbox[a][2].uid
        /\ mailbox[a][2].uid < ret[a].msg.uid
        /\ ret[a].msg.uid < mailbox[a][3].uid
        /\ \A i \in DOMAIN mailbox[a] :
              ~Matches(mailbox[a][i].body, rcv[a].pats)

\* ------------------------------------------------------------------- C6
\* C6: every message cast to an actor is either once in the actor's mailbox or
\* has been returned once by a receive of the actor, never both and never
\* neither; and receive returns only messages that were cast to the actor.
C6_NoLossNoDuplicate ==
    \A a \in Actors :
        /\ \A i \in DOMAIN sent[a] :
              Occurrences(mailbox[a], sent[a][i])
                + Occurrences(got[a], sent[a][i]) = 1
        /\ \A i, k \in DOMAIN sent[a] :
              i # k => sent[a][i].uid # sent[a][k].uid
        /\ Range(mailbox[a]) \cup Range(got[a]) \subseteq Range(sent[a])
        /\ (ret[a].op = "receive" /\ ret[a].j # 0) =>
              /\ ret[a].msg \in Range(sent[a])
              /\ ret[a].msg \in Range(got[a])

\* Of the messages cast to an actor, one has been returned and one is waiting.
C6_Witness ==
    \E a \in Actors :
        /\ Len(sent[a]) >= 2
        /\ got[a] # <<>>
        /\ mailbox[a] # <<>>

\* ------------------------------------------------------------------- C7
\* C7: messages are in a mailbox in the order of their casts (so two casts of
\* one sender to one recipient are placed in program order), and a receive
\* never returns a message while an earlier message of the same sender that
\* matches the patterns of this receive is in the mailbox.
C7_PerSenderFifo ==
    [][\A a \in Actors :
          /\ \A i, k \in DOMAIN mailbox'[a] :
                i < k => mailbox'[a][i].uid < mailbox'[a][k].uid
          /\ \A i, k \in DOMAIN sent'[a] :
                i < k => sent'[a][i].uid < sent'[a][k].uid
          /\ ReceiveReturns(a) =>
                \A i \in DOMAIN mailbox[a] :
                    (/\ mailbox[a][i].from = ret'[a].msg.from
                     /\ mailbox[a][i].uid < ret'[a].msg.uid)
                        => ~Matches(mailbox[a][i].body, rcv'[a].pats)]_vars

\* An actor has received, in two receives, the two messages m1 and m2 that
\* another actor cast to it, in the order of their casts, both matching the
\* patterns, while a third actor cast a message to it between the two casts
\* and a message of that third actor is still in the mailbox.
C7_Witness ==
    \E a \in Actors :
        /\ cur = a /\ ret[a].op = "receive" /\ ret[a].j # 0
        /\ Len(got[a]) >= 2
        /\ LET m1 == got[a][Len(got[a]) - 1]
               m2 == got[a][Len(got[a])]
           IN /\ m2 = ret[a].msg
              /\ m1.from = m2.from /\ m1.from # a
              /\ m1.uid < m2.uid
              /\ Matches(m1.body, rcv[a].pats)
              /\ Matches(m2.body, rcv[a].pats)
              /\ \E i \in DOMAIN sent[a] :
                    /\ sent[a][i].from \notin {a, m1.from}
                    /\ m1.uid < sent[a][i].uid
                    /\ sent[a][i].uid < m2.uid
              /\ \E i \in DOMAIN mailbox[a] :
                    mailbox[a][i].from \notin {a, m1.from}

\* ------------------------------------------------------------------- C8
\* The actor is suspended in receive and a message of its mailbox matches the
\* patterns of this receive.
SuspendedWithMatch(a) ==
    /\ pos[a] = "receive"
    /\ \E i \in DOMAIN mailbox[a] : Matches(mailbox[a][i].body, rcv[a].pats)

C9_TimeoutSentinel ==
    [][\A a \in Actors :
          /\ (ReceiveResult(a) /\ ret'[a].j = 0) =>
                /\ ret'[a].msg = NoMsg
                /\ mailbox'[a] = mailbox[a]
                /\ got'[a] = got[a]
          /\ (ReceiveResult(a) /\ rcv'[a].timeout = "zero") =>
                /\ cur = a /\ pos[a] = "-"
                /\ cur' = a /\ pos'[a] = "-"
                /\ ret'[a].j = 0 <=>
                      ~\E i \in DOMAIN mailbox[a] :
                          Matches(mailbox[a][i].body, rcv'[a].pats)
          /\ pos'[a] = "receive" => rcv'[a].timeout # "zero"]_vars

\* A receive with a timeout has given the sentinel: a message is in the
\* mailbox, which does not match.
C9_Witness ==
    \E a \in Actors :
        /\ cur = a /\ ret[a].op = "receive" /\ ret[a].j = 0
        /\ rcv[a].timeout = "timed"
        /\ mailbox[a] # <<>>
        /\ \A i \in DOMAIN mailbox[a] : ~Matches(mailbox[a][i].body, rcv[a].pats)

\* ------------------------------------------------------------------ C10
\* The message is a response to the call of correlation id r.
IsResponseTo(m, r) ==
    "response" \in DOMAIN m.body /\ m.body["response"] = Str(r)

\* The messages of a mailbox that are no responses to call r, in their order.
Others(q, r) ==
    LET other(m) == ~IsResponseTo(m, r)
    IN SelectSeq(q, other)

IsPrefix(p, q) == Len(p) <= Len(q) /\ SubSeq(q, 1, Len(p)) = p

\* C10: a call of correlation id r takes from the caller's mailbox, and returns
\* or raises from, only a message whose 'response' is r; as long as the call is
\* in progress, the responses to other calls and the messages that are no
\* responses stay in the mailbox in their order (casts may add to them).
C10_CallTakesOwnResponse ==
    [][\A a \in Actors :
          LET r == IF incall[a].id # "" THEN incall[a].id ELSE incall'[a].id
          IN /\ r # "" =>
                    IsPrefix(Others(mailbox[a], r), Others(mailbox'[a], r))
             /\ (ret'[a] # ret[a] /\ ret'[a].op = "call") =>
                    /\ ret'[a].id = r
                    /\ IF ret'[a].kind = "TypeError"
                       THEN mailbox'[a] = mailbox[a]
                       ELSE /\ IsResponseTo(ret'[a].msg, r)
                            /\ ret'[a].msg \in Range(mailbox[a])
                            /\ Occurrences(mailbox'[a], ret'[a].msg) =
                                  Occurrences(mailbox[a], ret'[a].msg) - 1
                            /\ Len(mailbox'[a]) = Len(mailbox[a]) - 1]_vars

\* A call has returned the response to it, which came after a response to
\* another call of the same caller; that one is left in the mailbox.
C10_Witness ==
    \E a \in Actors :
        /\ cur = a /\ ret[a].op = "call" /\ ret[a].kind = "return"
        /\ \E i \in DOMAIN mailbox[a] :
              /\ "response" \in DOMAIN mailbox[a][i].body
              /\ ~IsResponseTo(mailbox[a][i], ret[a].id)
              /\ mailbox[a][i].uid < ret[a].msg.uid

\* ------------------------------------------------------------------ C11
\* This step, a call of actor a returns or raises from a response.
CallResult(a) ==
    ret'[a] # ret[a] /\ ret'[a].op = "call" /\ ret'[a].kind # "TypeError"

\* C11: the response with the id of the call decides its outcome.  With a
\* 'message' field the call returns that field; with an 'exception' field it
\* raises RemoteException, whose argument is the response and so holds the
\* payload; with an 'invalid_method' field it raises RemoteAttributeError with
\* the method of the call, which is the method the response names; with a
\* timeout and without.
C11_CallOutcomeByShape ==
    [][\A a \in Actors :
          CallResult(a) =>
              LET m == ret'[a].msg.body
                  v == ret'[a].val
              IN /\ m["response"] = Str(ret'[a].id)
                 /\ "message" \in DOMAIN m =>
                       /\ ret'[a].kind = "return" /\ exc'[a] = ""
                       /\ v = m["message"]
                 /\ "exception" \in DOMAIN m =>
                       /\ ret'[a].kind = "RemoteException"
                       /\ exc'[a] = "RemoteException"
                       /\ v.d["exception"] = m["exception"]
                 /\ "invalid_method" \in DOMAIN m =>
                       /\ ret'[a].kind = "RemoteAttributeError"
                       /\ exc'[a] = "RemoteAttributeError"
                       /\ v = Str(incall[a].method)
                       /\ v = m["invalid_method"]
                 /\ \E k \in {"message", "exception", "invalid_method"} :
                       k \in DOMAIN m]_vars

\* A call with a timeout has raised RemoteException from an exception response.
C11_Witness ==
    \E a \in Actors :
        /\ cur = a /\ ret[a].op = "call" /\ ret[a].kind = "RemoteException"
        /\ exc[a] = "RemoteException"
        /\ ret[a].val.d["exception"] = Tree("ValueError")
        /\ ctimer[a] = 0

\* ------------------------------------------------------------------ C12
\* This step, the Server ends a turn of its loop for the call message it
\* consumed.
ServerServed(s) == ret[s].op = "receive" /\ ret'[s].op = "serve"

\* The reply the claim has the Server cast for a call message.
ExpectedReply(c) ==
    IF c["method"].s \notin ServerAttributes
    THEN ("response" :> c["call"]) @@ ("invalid_method" :> c["method"])
    ELSE IF c["method"].s \in ServerRaises
    THEN ("response" :> c["call"]) @@ ("exception" :> Tree("ValueError"))
    ELSE ("response" :> c["call"]) @@ ("message" :> Num(7))

IsNoCall(m) == ~is_shaped(m.body, CALL_PATTERN)
NewlySent(b) == SubSeq(sent'[b], Len(sent[b]) + 1, Len(sent'[b]))

\* C12: in the turn of its loop for a call message the Server casts exactly
\* one reply, to the address of the call, with the id of the call:
\* invalid_method without an attribute of the name, exception if the method
\* raised, message with what the method returned otherwise; it casts nothing
\* else; its receive returns only call messages, and every other message
\* stays in its mailbox.
C12_ServerRepliesOnce ==
    [][LET s == TheServer
       IN /\ ServerServed(s) =>
                LET c == ret[s].msg.body
                    to == c["address"].a
                IN /\ to = ret[s].msg.from
                   /\ Len(NewlySent(to)) = 1
                   /\ NewlySent(to)[1].from = s
                   /\ NewlySent(to)[1].body = ExpectedReply(c)
                   /\ \A b \in Actors \ {to} : NewlySent(b) = <<>>
          /\ ~ServerServed(s) =>
                \A b \in Actors :
                    \A i \in DOMAIN NewlySent(b) : NewlySent(b)[i].from # s
          /\ got'[s] # got[s] =>
                is_shaped(got'[s][Len(got'[s])].body, CALL_PATTERN)
          /\ IsPrefix(SelectSeq(mailbox[s], IsNoCall),
                      SelectSeq(mailbox'[s], IsNoCall))]_vars

\* The same, for the turns in which the actor at the address of the call is
\* alive.
C12_RepliesOnceToLiveCaller ==
    [][LET s == TheServer
       IN (ServerServed(s) /\ ~IsDead(ret[s].msg.body["address"].a)) =>
                LET c == ret[s].msg.body
                    to == c["address"].a
                IN /\ Len(NewlySent(to)) = 1
                   /\ NewlySent(to)[1].body = ExpectedReply(c)
                   /\ exc'[s] = ""]_vars

\* ------------------------------------------------------------------ C13
\* The actor is suspended in the receive of a call with a timeout.
InTimedCall(a) ==
    state[a] = "active" /\ pos[a] = "receive" /\ incall[a].timed

\* The call of the actor has failed with TimeoutError: the actor runs again,
\* outside receive, with the exception.
CallTimedOut(a) ==
    /\ cur = a /\ state[a] = "active" /\ exc[a] = "TimeoutError"
    /\ pos[a] = "-" /\ ~wevent[a] /\ incall[a] = NoCall

\* C13: a call with a timeout that gets no reply fails with TimeoutError in
\* the end; the step in which it fails takes the caller out of receive and
\* leaves its mailbox as it was, and no step of the call removes a message
\* from the caller's mailbox.
C13_CallTimesOut ==
    /\ \A a \in CallActors : InTimedCall(a) ~> CallTimedOut(a)
    /\ [][\A a \in CallActors :
             /\ (InTimedCall(a) /\ exc'[a] = "TimeoutError") =>
                   /\ CallTimedOut(a)'
                   /\ mailbox'[a] = mailbox[a] /\ got'[a] = got[a]
             /\ incall[a].id # "" => IsPrefix(mailbox[a], mailbox'[a])]_vars

\* A call with a timeout to a live actor, which has received the call message
\* and does not reply, has failed with TimeoutError, and a message cast to the
\* caller in the meantime is in its mailbox.
C13_Witness ==
    \E a, b \in CallActors :
        /\ a # b /\ CallTimedOut(a) /\ state[b] = "active"
        /\ \E i \in DOMAIN got[b] : got[b][i].from = a
        /\ mailbox[a] # <<>>

\* ------------------------------------------------------------------ C14
\* This step, actor a does cast, call, link, wait or kill on the Address of
\* actor b.
OnAddress(a, b) ==
    \/ Cast(a, b, Tagged("A"))
    \/ \E timed \in BOOLEAN : Call(a, b, "m", timed)
    \/ \E trap_exit \in BOOLEAN : LinkTo(a, b, trap_exit)
    \/ WaitOn(a, b)
    \/ KillActor(a, b)

\* C14: on the Address of an actor that has finished, cast, call, link, kill
\* and wait fail with DeadActor at once (the caller goes on running, with the
\* exception), and nothing is ever put in the mailbox or in the links of the
\* finished actor.
C14_DeadAddressFails ==
    [][\A b \in AddrActors :
          state[b] = "dead" =>
              /\ mailbox'[b] = mailbox[b] /\ sent'[b] = sent[b]
              /\ links'[b] = links[b] /\ exit_links'[b] = exit_links[b]
              /\ \A a \in AddrActors :
                    OnAddress(a, b) =>
                        /\ exc'[a] = "DeadActor"
                        /\ cur' = a /\ pos'[a] = "-"
                        /\ state' = state /\ waiting_on' = waiting_on
                        /\ incall' = incall /\ ret' = ret]_vars

\* The only operation that has been done is a call on the Address of a
\* finished actor: it has failed with DeadActor and has cast nothing.
C14_Witness ==
    \E a, b \in AddrActors :
        /\ cur = a /\ exc[a] = "DeadActor" /\ state[b] = "dead"
        /\ ops = 1 /\ ncall = 1
        /\ \A c \in AddrActors : sent[c] = <<>>

\* ------------------------------------------------------------------ C15
\* C15: every wait() on the Address of an actor whose behaviour has ended
\* returns the value the behaviour returned, or raises the exception it ended
\* with, at once (so every such wait has the same outcome).
C15_WaitAfterTermination ==
    [][\A a, b \in AddrActors :
          (Terminated(b) /\ WaitOn(a, b)) =>
              /\ ret'[a] = [op |-> "wait", target |-> b, out |-> ended[b]]
              /\ exc'[a] = (IF ended[b].kind = "exc" THEN ended[b].val ELSE "")
              /\ cur' = a]_vars

\* ------------------------------------------------------------------ C16
\* How the behaviour of a killed actor ends.
KilledOutcome == [kind |-> "exc", val |-> "Killed"]

\* This step, actor a kills actor b, which is suspended in sleep or receive.
KillsSuspended(a, b) ==
    state[b] = "active" /\ pos[b] \in {"sleep", "receive"} /\ KillActor(a, b)

\* C16: kill() on an actor suspended in sleep or receive throws Killed in it,
\* and its behaviour ends with Killed; a wait() that was blocked on it when it
\* was killed raises Killed, and so does every wait() on its Address that is
\* made after the kill (the killer's, right after kill() has returned).
C16_KilledThenWaitRaisesKilled ==
    [][\A a, b \in KillActors :
          /\ KillsSuspended(a, b) => (exc'[b] = "Killed" /\ cur' = b)
          /\ (exc[b] = "Killed" /\ state'[b] = "dead") =>
                ended'[b] = KilledOutcome
          /\ (ended[b] = KilledOutcome /\ ret'[a] # ret[a]
                /\ ret'[a].op = "wait" /\ ret'[a].target = b) =>
                exc'[a] = "Killed"
          /\ (ended[b] = KilledOutcome /\ WaitOn(a, b)) =>
                (exc'[a] = "Killed" /\ cur' = a)]_vars

\* The same without the waits that are made after the target has ended.
C16_BlockedWaitRaisesKilled ==
    [][\A a, b \in KillActors :
          /\ KillsSuspended(a, b) => (exc'[b] = "Killed" /\ cur' = b)
          /\ (exc[b] = "Killed" /\ state'[b] = "dead") =>
                ended'[b] = KilledOutcome
          /\ (ended[b] = KilledOutcome /\ ret'[a] # ret[a]
                /\ ret'[a].op = "wait" /\ ret'[a].target = b) =>
                exc'[a] = "Killed"]_vars

\* ------------------------------------------------------------------ C17
\* This step, the run() of actor b, in which Killed was thrown, ends.
KilledEnds(b) == state[b] = "active" /\ exc[b] = "Killed" /\ state'[b] = "dead"

\* The messages about actor b with the given key that this step puts in the
\* mailbox of actor a.
NewAbout(a, b, key) ==
    SelectSeq(NewlySent(a),
              LAMBDA m : DOMAIN m.body = {"address", key}
                         /\ m.body["address"] = Addr(b))

\* C17: when the run() of a killed actor ends, every live actor in its links
\* gets one exception message, which reports Killed, every live actor in its
\* exit-links gets one exit message with exit None, and the entry of the
\* killed actor leaves the registry.
C17_KilledNotifiesLinks ==
    [][\A b \in KillActors :
          KilledEnds(b) =>
              /\ \A a \in Range(links[b]) :
                    ~IsDead(a) =>
                        /\ Len(NewAbout(a, b, "exception")) = 1
                        /\ NewAbout(a, b, "exception")[1].body["exception"]
                              = Tree("Killed")
              /\ \A a \in Range(exit_links[b]) :
                    ~IsDead(a) =>
                        /\ Len(NewAbout(a, b, "exit")) = 1
                        /\ NewAbout(a, b, "exit")[1].body["exit"] = None
              /\ all_actors'[actor_id[b]] = 0]_vars

\* The same for the killed actors whose links are live actors, each once.
C17_KilledNotifiesLiveLinksOnce ==
    [][\A b \in KillActors :
          (/\ KilledEnds(b)
           /\ \A i \in DOMAIN links[b] :
                 /\ ~IsDead(links[b][i])
                 /\ \A j \in DOMAIN links[b] : links[b][j] = links[b][i] => j = i)
          =>  /\ \A a \in Range(links[b]) :
                    /\ Len(NewAbout(a, b, "exception")) = 1
                    /\ NewAbout(a, b, "exception")[1].body["exception"]
                          = Tree("Killed")
              /\ \A a \in Range(exit_links[b]) :
                    /\ Len(NewAbout(a, b, "exit")) = 1
                    /\ NewAbout(a, b, "exit")[1].body["exit"] = None
              /\ all_actors'[actor_id[b]] = 0]_vars

\* ------------------------------------------------------------------ C18
\* This step, the run() of actor b ends.
RunEnds(b) == state[b] = "active" /\ state'[b] = "dead"

\* C18: spawn_link leaves the new actor not yet started with the spawner as
\* the one entry of its links and of its exit-links, and these stay the first
\* entries; so when the run() of the child ends while the spawner is alive,
\* that step puts the child's termination message in the spawner's mailbox:
\* the exit message with the value returned, or the exception message.
C18_SpawnLinkBeforeChildRuns ==
    [][\A a, b \in Actors :
          /\ (state[b] = "unused" /\ state'[b] = "new" /\ SpawnLink(a)) =>
                /\ links'[b] = <<a>> /\ exit_links'[b] = <<a>>
                /\ ret'[b] = NoRet /\ cur' = a
          /\ IsPrefix(links[b], links'[b])
          /\ IsPrefix(exit_links[b], exit_links'[b])
          /\ (/\ RunEnds(b) /\ ~IsDead(a)
              /\ links[b] # <<>> /\ links[b][1] = a
              /\ exit_links[b] # <<>> /\ exit_links[b][1] = a) =>
                LET out == ended'[b]
                    note == IF out.kind = "value"
                            THEN ExitMessage(b, out.val)
                            ELSE ExceptionMessage(b, out.val)
                IN /\ NewlySent(a) # <<>>
                   /\ NewlySent(a)[1].body = note
                   /\ NewlySent(a)[1].from = b
                   /\ IsPrefix(mailbox[a] \o <<NewlySent(a)[1]>>, mailbox'[a])
       ]_vars

\* A child made by spawn_link has returned without having done anything else,
\* and its exit message is in the mailbox of the spawner, which is alive.
C18_Witness ==
    \E a, b \in Actors :
        /\ a # b /\ ~IsDead(a) /\ state[a] = "active"
        /\ links[b] # <<>> /\ links[b][1] = a
        /\ exit_links[b] # <<>> /\ exit_links[b][1] = a
        /\ ended[b] = [kind |-> "value", val |-> Num(4)]
        /\ ret[b] = NoRet
        /\ mailbox[a] # <<>>
        /\ mailbox[a][1].body = ExitMessage(b, Num(4))

\* ------------------------------------------------------------------ C19
\* C19: when the behaviours given to wait_all have all returned and the
\* Gather has returned, its result (which wait_all returns from wait()) is the
\* list of the exit messages of the children, in the order they were spawned.
C19_WaitAllInSpawnOrder ==
    Terminated(TheGather) =>
        /\ ended[TheGather].kind = "value"
        /\ ended[TheGather].val =
              List([i \in DOMAIN address_list |->
                       ExitMessage(address_list[i], Num(4))])
        /\ exit_event[TheGather] = ended[TheGather]

\* The same, when the children have ended in the order they were spawned.
C19_InOrderOfCompletion ==
    (/\ Terminated(TheGather)
     /\ \A i \in DOMAIN got[TheGather] :
           got[TheGather][i].body["address"] = Addr(address_list[i]))
    =>  /\ ended[TheGather].val =
              List([i \in DOMAIN address_list |->
                       ExitMessage(address_list[i], Num(4))])
        /\ exit_event[TheGather] = ended[TheGather]

\* ------------------------------------------------------------------ C20
\* Address.lookup(name) fails: the registry has no entry of that name.
LookupFails(name) == all_actors[name] = 0

\* C20: once the behaviour of an actor has returned or raised, the registry
\* has no entry for the actor's id, whatever its links and whether the actors
\* linked to it are alive.
C20_RegistryEntryRemoved ==
    \A a \in Actors : Terminated(a) => LookupFails(actor_id[a])

\* The same for the actors none of whose links is a finished actor when their
\* behaviour ends.
C20_RemovedWhenLinksAlive ==
    [][\A a \in Actors :
          (/\ RunEnds(a)
           /\ \A b \in Range(links[a]) \cup Range(exit_links[a]) : ~IsDead(b))
          => LookupFails(actor_id[a])']_vars

\* ------------------------------------------------------------------ C21
\* C21: an actor whose behaviour has returned or raised is dead with its exit
\* event sent (with how the behaviour ended), and every actor that is blocked
\* in wait() on it is resumed in the end, whatever its links.
C21_TerminationWakesWaiters ==
    /\ [](\A a \in Actors :
             Terminated(a) => (state[a] = "dead" /\ exit_event[a] = ended[a]))
    /\ \A w, a \in Actors :
          (pos[w] = "wait" /\ waiting_on[w] = a /\ Terminated(a))
              ~> (pos[w] # "wait")

\* The same for the actors none of whose links is a finished actor when their
\* behaviour ends: the step in which run() ends sends the exit event and
\* schedules every waiter.
C21_ExitEventSentWhenLinksAlive ==
    [][\A a \in Actors :
          (/\ RunEnds(a)
           /\ \A b \in Range(links[a]) \cup Range(exit_links[a]) : ~IsDead(b))
          => /\ exit_event'[a] = ended'[a]
             /\ \A w \in Actors :
                   (pos[w] = "wait" /\ waiting_on[w] = a) => exitwake'[w]]_vars

\* ------------------------------------------------------------------ C22
\* An exit or exception message about actor a has been put in the mailbox of
\* actor b.
Notified(b, a) ==
    Notifications(b, a, "exit") + Notifications(b, a, "exception") > 0

\* C22: whenever a message about the end of actor a is in a mailbox, the exit
\* event of a has been sent; and a wait() on a by an actor that has got such a
\* message does not block.
C22_NotifiedAfterExitEvent ==
    /\ [](\A a, b \in Actors : Notified(b, a) => exit_event[a] # Unset)
    /\ [][\A a, w \in Actors :
             (Notified(w, a) /\ WaitOn(w, a)) =>
                 (pos'[w] # "wait" /\ cur' = w)]_vars

\* The same for the actors none of whose links is a finished actor when their
\* behaviour ends.
C22_NotifiedAfterExitEventLinksAlive ==
    [][\A a \in Actors :
          (/\ RunEnds(a)
           /\ \A b \in Range(links[a]) \cup Range(exit_links[a]) : ~IsDead(b))
          => \A b \in Actors : Notified(b, a)' => exit_event'[a] # Unset]_vars

\* ------------------------------------------------------------------ C23
\* The actor has been made and its greenlet has not finished.
Live(a) == state[a] \in {"new", "active"}

\* C23: every key of the registry maps to an actor that has the key as its
\* actor_id, no two live actors have the same actor_id, and a rename to a name
\* that another live actor holds fails with an exception and leaves the
\* registry and the ids as they were.
C23_ActorIdsUnique ==
    /\ [](\A k \in Names : all_actors[k] # 0 => actor_id[all_actors[k]] = k)
    /\ [](\A a, b \in Actors :
             (Live(a) /\ Live(b) /\ a # b) => actor_id[a] # actor_id[b])
    /\ [][\A a, b \in Actors : \A name \in UserNames :
             (Live(b) /\ b # a /\ actor_id[b] = name /\ RenameTo(a, name)) =>
                 /\ exc'[a] # ""
                 /\ all_actors' = all_actors /\ actor_id' = actor_id]_vars

\* ------------------------------------------------------------------ C24
\* C24, as the spec states it: respond, respond_exception and
\* respond_invalid_method on a message that has not the shape of a call raise
\* InvalidCallMessage and cast nothing; on a call message each casts exactly
\* one response, with the id of the call, to the address of the call.  It
\* fails when the caller has ended: the cast raises DeadActor and no response
\* is sent.
C24_RespondAlwaysCastsOne ==
    [][\A a \in Actors, kind \in ResponseKinds :
          (ret[a].op = "receive" /\ ret[a].j # 0 /\ Respond(a, kind)) =>
             LET orig == ret[a].msg.body
             IN IF ~is_shaped(orig, CALL_PATTERN)
                THEN /\ exc'[a] = "InvalidCallMessage"
                     /\ sent' = sent /\ mailbox' = mailbox
                ELSE LET to == orig["address"].a
                     IN /\ exc'[a] = ""
                        /\ Len(NewlySent(to)) = 1
                        /\ DOMAIN NewlySent(to)[1].body = {"response", kind}
                        /\ NewlySent(to)[1].body["response"] = orig["call"]]_vars

\* C24, corrected: respond, respond_exception and respond_invalid_method on a
\* message that has not the shape of a call raise InvalidCallMessage and cast
\* nothing; on a call message whose caller is alive each does one cast, to the
\* address of the call, of a response that carries the id of the call and the
\* key of its kind: the message is appended to the mailbox of the caller and
\* nothing else is sent; on a call message whose caller has ended each raises
\* DeadActor and casts nothing.
C24_RespondCastsOneResponse ==
    [][\A a \in Actors, kind \in ResponseKinds :
          (ret[a].op = "receive" /\ ret[a].j # 0 /\ Respond(a, kind)) =>
             LET orig == ret[a].msg.body
             IN IF ~is_shaped(orig, CALL_PATTERN)
                THEN /\ exc'[a] = "InvalidCallMessage"
                     /\ sent' = sent /\ mailbox' = mailbox
                ELSE LET to == orig["address"].a
                     IN IF state[to] = "dead"
                        THEN /\ exc'[a] = "DeadActor"
                             /\ sent' = sent /\ mailbox' = mailbox
                        ELSE /\ exc'[a] = ""
                             /\ Len(NewlySent(to)) = 1
                             /\ DOMAIN NewlySent(to)[1].body = {"response", kind}
                             /\ NewlySent(to)[1].body["response"] = orig["call"]
                             /\ mailbox'[to] = Append(mailbox[to], NewlySent(to)[1])
                             /\ \A b \in Actors \ {to} :
                                   sent'[b] = sent[b] /\ mailbox'[b] = mailbox[b]]_vars

\* Both cases have happened: an actor whose last received message is no call
\* has InvalidCallMessage raised in it, and a response to the call k1 has been
\* sent.
C24_Witness ==
    /\ \E a \in Actors :
          /\ exc[a] = "InvalidCallMessage"
          /\ ~is_shaped(ret[a].msg.body, CALL_PATTERN)
    /\ \E b \in Actors : \E i \in 1..Len(sent[b]) :
          IsResponseTo(sent[b][i], "k1")

\* ------------------------------------------------------------------ C25
\* C25: the Server has run start when it begins a receive; the run of a
\* Server whose main was entered ends only after stop has run, stop does not
\* run a second time, and its exit signal is not fulfilled before stop has run
\* (the loop ends only by an exception: a Killed thrown into the receive, or
\* one that a respond raised).
C25_StartFirstStopOnce ==
    /\ [][Receive(TheServer, <<CALL_PATTERN>>, FALSE) =>
             ret[TheServer].op \in {"start", "serve"}]_vars
    /\ [](got[TheServer] # <<>> => ret[TheServer].op # "none")
    /\ [][(RunEnds(TheServer) /\ ret[TheServer].op # "none") =>
             ret[TheServer].op = "stop"]_vars
    /\ [][ret[TheServer].op = "stop" => ret'[TheServer] = ret[TheServer]]_vars
    /\ [](exit_event[TheServer] # Unset => ret[TheServer].op = "stop")

\* The Server was killed while suspended in receive, has run stop, and its
\* exit signal holds Killed.
C25_Witness ==
    /\ state[TheServer] = "dead"
    /\ ret[TheServer].op = "stop"
    /\ exit_event[TheServer] = [kind |-> "exc", val |-> "Killed"]

\* ------------------------------------------------------------------ C26
\* A message that tells the end of actor c: its exit or its exception.
IsTerminationOf(m, c) ==
    /\ DOMAIN m \in {{"address", "exit"}, {"address", "exception"}}
    /\ m["address"] = Addr(c)

\* C26: when the Gather has ended, of children that returned or raised, it has
\* returned a list with one message for each child, the i-th message a
\* termination message of the i-th child spawned, and every child has ended.
C26_OneTerminationPerChild ==
    Terminated(TheGather) =>
        /\ ended[TheGather].kind = "value"
        /\ Len(ended[TheGather].val.l) = Len(address_list)
        /\ \A i \in DOMAIN address_list :
              IsTerminationOf(ended[TheGather].val.l[i], address_list[i])
        /\ \A c \in GatherChildren : Terminated(c)

\* ------------------------------------------------------------------ C27
\* The message of the log at place i tells the exit / the exception of actor A.
IsAbout(q, i, A, key) ==
    DOMAIN q[i].body = {"address", key} /\ q[i].body["address"] = Addr(A)

\* C27: for an actor A whose behaviour raised and an actor b it notifies both
\* as a link and as an exit link, the exception message is put in b's mailbox,
\* and no exit message of A comes before its exception message there; and the
\* receives of b with the patterns (exit, exception) return the exception
\* message of A before the exit message of A.
C27_ExceptionBeforeExit ==
    \A A \in GatherChildren :
        ended[A].kind = "exc" =>
            /\ \A j \in DOMAIN sent[TheGather] :
                  IsAbout(sent[TheGather], j, A, "exit") =>
                      \E i \in 1..(j - 1) :
                          IsAbout(sent[TheGather], i, A, "exception")
            /\ \A j \in DOMAIN got[TheGather] :
                  IsAbout(got[TheGather], j, A, "exit") =>
                      \E i \in 1..(j - 1) :
                          IsAbout(got[TheGather], i, A, "exception")

\* The Gather has received the exception message and then the exit message of
\* a child that raised, by receives with the patterns (exit, exception).
C27_Witness ==
    /\ rcv[TheGather].pats = <<PatExit, PatException>>
    /\ \E A \in GatherChildren :
          /\ ended[A].kind = "exc"
          /\ Len(got[TheGather]) >= 2
          /\ IsAbout(got[TheGather], 1, A, "exception")
          /\ IsAbout(got[TheGather], 2, A, "exit")

\* ------------------------------------------------------------------ C28
\* C28: the run of the Server ends only of a Killed; the turn of its loop for
\* a call whose caller has ended raises nothing in the Server and leaves it in
\* the registry.
C28_ServerEndsOnlyKilled ==
    [][/\ RunEnds(TheServer) => exc[TheServer] = "Killed"
       /\ (/\ ServerServed(TheServer)
           /\ state[ret[TheServer].msg.body["address"].a] = "dead")
          => /\ exc'[TheServer] = ""
             /\ all_actors'[actor_id[TheServer]] = TheServer]_vars

\* ------------------------------------------------------------------ C29
\* C29: a receive without a timeout returns only with a message of the
\* mailbox, never the pair (None, None), whatever the receives before it did.
C29_UntimedNeverSentinel ==
    [][\A a \in Actors :
          (/\ ret'[a] # ret[a]
           /\ ret'[a].op = "receive"
           /\ rcv'[a].timeout = "none")
          => ret'[a].j # 0]_vars

\* ------------------------------------------------------------------ C30
\* The actor is dead and its behaviour never ran: it was killed between its
\* spawn and its first switch.
KilledBeforeStart(b) == state[b] = "dead" /\ ended[b].kind = "unset"

\* C30: an actor killed before its first scheduling gets, in the end, its exit
\* event sent with Killed, its registry entry removed and its exit links
\* notified; and an actor that is dead stays dead and is never the running
\* greenlet again.
C30_KilledBeforeStartEndsInFull ==
    /\ \A b \in Actors :
          KilledBeforeStart(b) ~>
              /\ exit_event[b] = [kind |-> "exc", val |-> "Killed"]
              /\ LookupFails(actor_id[b])
              /\ \A a \in Range(exit_links[b]) : Notifications(a, b, "exit") >= 1
    /\ [][\A b \in Actors :
             state[b] = "dead" => (state'[b] = "dead" /\ cur' # b)]_vars

\* The part of it that holds: a dead actor stays dead and never runs again.
C30_DeadNeverRuns ==
    [][\A b \in Actors :
          state[b] = "dead" => (state'[b] = "dead" /\ cur' # b)]_vars

====
